---- MODULE Spec2Model ----
(***************************************************************************)
(* The cache abstraction of n-lib (library-admin): the in-memory cache of  *)
(* the server tier (backend/cache/InMemoryCache.js) and of the browser     *)
(* tier (src/utils/cache/InMemoryCache.ts), the factory that builds the    *)
(* server's cache singleton (backend/cache/CacheFactory.js, index.js) and  *)
(* the server's read-through and invalidating handlers.                    *)
(*                                                                         *)
(* Conventions of the model                                                *)
(*  - A string is the sequence of its characters, so that the regular      *)
(*    expression deletePattern builds can be run on it.                    *)
(*  - A JavaScript value that may be null/undefined is a sequence of       *)
(*    length <= 1: Null is <<>>, Some(x) is <<x>>.                         *)
(*  - The clock now is the local wall clock in milliseconds (a day starts  *)
(*    at a multiple of DayMs; no daylight-saving change is modelled).      *)
(*  - One call of a method is one step: the method bodies are synchronous  *)
(*    and every Date.now() of one call reads the same instant.             *)
(***************************************************************************)
EXTENDS Integers, Sequences, FiniteSets, TLC

VARIABLES
    tier,        \* "server" (InMemoryCache.js) or "browser" (InMemoryCache.ts)
    defaultTTL,  \* this.defaultTTL: Null or Some(seconds)
    maxSize,     \* this.maxSize
    cache,       \* this.cache: the Map, as the sequence of its entries in insertion order
    stats,       \* this._stats: [hits, misses, sets, deletes]
    now,         \* the clock, Date.now()
    written,     \* history: per key, the most recent set(k, v) not followed by a delete,
                 \* a deletePattern, a clear or an eviction that removed k
    everSet,     \* history: the keys set since construction or the last clear
    log,         \* history: the get and set calls made since construction or the last
                 \* clear, whether a clear emptied a store that held entries and no
                 \* set has followed it, whether a call ever threw
    app          \* the server process around the cache: see the section on the server

vars == <<tier, defaultTTL, maxSize, cache, stats, now, written, everSet, log, app>>

-----------------------------------------------------------------------------
(* Optional values *)

Null == <<>>
Some(x) == <<x>>
Val(o) == o[1]

-----------------------------------------------------------------------------
(* Bounds of the model *)

\* how many counted calls (get, set, removed keys) happen between two clears
MaxOps == 3
\* the same for the specification of deletePattern
MaxPatternOps == 3
\* the get calls and the set calls between two clears in the specification of stats
MaxReads == 7
MaxStatsSets == 2
\* the requests the server takes, and the revisions the book in its database has
MaxRequests == 3
MaxRevision == 2
\* the clock runs from StartBeforeMidnight ms before a local midnight to
\* EndAfterMidnight ms after it, TickMs at a time
StartBeforeMidnight == 1500
EndAfterMidnight == 500
TickMs == 1000

-----------------------------------------------------------------------------
(* Program constants *)

MsPerSecond == 1000
DefaultMaxSize == 1000
HoursPerDay == 24
DayMs == HoursPerDay * 60 * 60 * MsPerSecond

StartTime == DayMs - StartBeforeMidnight
EndTime == DayMs + EndAfterMidnight

-----------------------------------------------------------------------------
(* Keys, values, patterns *)

Str_booksAll == <<"b","o","o","k","s",":","a","l","l">>
Str_books5 == <<"b","o","o","k","s",":","5">>
Str_booksNL == <<"b","o","o","k","s",":","\n">>
Str_usersAll == <<"u","s","e","r","s",":","a","l","l">>
Str_empty == <<>>
Str_a_c == <<"a",".","c">>
Str_abc == <<"a","b","c">>
Str_ac == <<"a","c">>
Pat_books == <<"b","o","o","k","s",":","*">>
Pat_users == <<"u","s","e","r","s",":","*">>
Pat_all == <<"*">>
Pat_aQc == <<"a","?","c">>
Pat_aSc == <<"a","*","c">>
Pat_a_c == <<"a",".","c">>
Pat_booksParen == <<"b","o","o","k","s",":","(">>
Pat_plus == <<"+">>
Pat_bracket == <<"[">>

\* the keys and patterns of Spec
Keys == {Str_empty, Str_booksAll, Str_usersAll}
Patterns == {Pat_books, Pat_users, Pat_all}

\* the keys and patterns of SpecPattern
GlobKeys == {Str_booksAll, Str_books5, Str_booksNL, Str_usersAll, Str_a_c, Str_abc, Str_ac}
GlobPatterns == {Pat_books, Pat_users, Pat_all, Pat_aQc, Pat_aSc, Pat_a_c}
\* patterns with characters that are special in a regular expression only
MetaPatterns == {Pat_booksParen, Pat_plus, Pat_bracket}

\* a cached value is a list of records; a record is <<id, revision>>
Values == { << <<1, 1>> >>, << <<1, 2>> >> }

\* the ttlSeconds argument of set: not passed, or a number of seconds
TTLArgs == {Null, Some(0), Some(1)}
\* options.defaultTTL and options.maxSize
DefaultTTLs == {Null, Some(1)}
MaxSizes == {1, 2}
Tiers == {"server", "browser"}

-----------------------------------------------------------------------------
(* The Map: insertion-ordered, unique keys *)

MapHas(m, k) == \E i \in 1..Len(m) : m[i].key = k

MapGet(m, k) == m[CHOOSE i \in 1..Len(m) : m[i].key = k]

MapDelete(m, k) ==
    LET keep(e) == e.key # k
    IN  SelectSeq(m, keep)

\* Map.prototype.set: an existing key keeps its place, a new key goes last
MapSet(m, k, e) ==
    IF MapHas(m, k)
    THEN [i \in 1..Len(m) |-> IF m[i].key = k THEN e ELSE m[i]]
    ELSE Append(m, e)

MapKeys(m) == [i \in 1..Len(m) |-> m[i].key]

KeySet(m) == {m[i].key : i \in 1..Len(m)}

-----------------------------------------------------------------------------
(* deletePattern's regular expression *)

\* pattern.replace(/\*/g, '.*').replace(/\?/g, '.'): no other character is escaped
RECURSIVE GlobToRegex(_)
GlobToRegex(p) ==
    IF p = <<>> THEN <<>>
    ELSE (CASE Head(p) = "*" -> <<".", "*">>
            [] Head(p) = "?" -> <<".">>
            [] OTHER -> <<Head(p)>>) \o GlobToRegex(Tail(p))

\* the characters the regular expression atom '.' does not match (no s flag)
LineTerminators == {"\n", "\r"}

\* one atom of the regular expression against one character
AtomMatches(a, c) == IF a = "." THEN c \notin LineTerminators ELSE a = c

\* new RegExp(`^${re}$`).test(s), for a source made of literal characters,
\* '.' and atoms followed by '*'
RECURSIVE RegexTest(_, _)
RegexTest(re, s) ==
    IF re = <<>> THEN s = <<>>
    ELSE IF Len(re) >= 2 /\ re[2] = "*"
         THEN \/ RegexTest(SubSeq(re, 3, Len(re)), s)
              \/ /\ s # <<>>
                 /\ AtomMatches(re[1], Head(s))
                 /\ RegexTest(re, Tail(s))
         ELSE /\ s # <<>>
              /\ AtomMatches(re[1], Head(s))
              /\ RegexTest(Tail(re), Tail(s))

\* does new RegExp(src) throw a SyntaxError?  src is scanned left to right;
\* depth is the number of open groups, canRepeat whether a quantifier may
\* follow.  Covers literal characters, '.', '^', '$', '*', '+', '(', ')',
\* '[', ']' and '\\'.
RECURSIVE RegexThrowsFrom(_, _, _)
RegexThrowsFrom(src, depth, canRepeat) ==
    IF src = <<>> THEN depth # 0
    ELSE LET c == Head(src)
             rest == Tail(src)
         IN  CASE c = "(" -> RegexThrowsFrom(rest, depth + 1, FALSE)
               [] c = ")" -> depth = 0 \/ RegexThrowsFrom(rest, depth - 1, TRUE)
               [] c = "[" ->
                    IF \E i \in 1..Len(rest) : rest[i] = "]"
                    THEN LET close == CHOOSE i \in 1..Len(rest) :
                                         /\ rest[i] = "]"
                                         /\ \A j \in 1..(i - 1) : rest[j] # "]"
                         IN  RegexThrowsFrom(SubSeq(rest, close + 1, Len(rest)), depth, TRUE)
                    ELSE TRUE
               [] c \in {"*", "+"} -> ~canRepeat \/ RegexThrowsFrom(rest, depth, FALSE)
               [] c \in {"^", "$"} -> RegexThrowsFrom(rest, depth, FALSE)
               [] c = "\\" -> rest = <<>> \/ RegexThrowsFrom(Tail(rest), depth, TRUE)
               [] OTHER -> RegexThrowsFrom(rest, depth, TRUE)

\* does new RegExp(`^${regexPattern}$`) throw for this pattern?
PatternThrows(pattern) ==
    RegexThrowsFrom(<<"^">> \o GlobToRegex(pattern) \o <<"$">>, 0, FALSE)

\* regex.test(key) for the regex deletePattern compiles from pattern
PatternTest(pattern, key) == RegexTest(GlobToRegex(pattern), key)

-----------------------------------------------------------------------------
(* TTL and expiry *)

\* _getSecondsUntilMidnight at clock reading t: setHours(24, 0, 0, 0) is the
\* next local midnight, also when t is a midnight itself
SecondsUntilMidnight(t) == ((DayMs - (t % DayMs)) \div MsPerSecond)

\* a variant of ResolveTTL in which a configured defaultTTL wins over the argument
ResolveTTL_DefaultFirst(ttlSeconds) ==
    IF defaultTTL # Null THEN Val(defaultTTL)
    ELSE IF ttlSeconds # Null THEN Val(ttlSeconds)
    ELSE SecondsUntilMidnight(now)

\* the TTL a set call resolves, in seconds
ResolveTTL(ttlSeconds) ==
    IF ttlSeconds # Null THEN Val(ttlSeconds)
    ELSE IF defaultTTL = Null THEN SecondsUntilMidnight(now)
    ELSE Val(defaultTTL)

\* a variant of ExpiresAt in which the TTL 0 expires at the time of the set
ExpiresAt_ZeroIsNow(ttl) == Some(now + ttl * MsPerSecond)

\* expiresAt: ttl ? Date.now() + (ttl * 1000) : null
ExpiresAt(ttl) == IF ttl # 0 THEN Some(now + ttl * MsPerSecond) ELSE Null

NewEntry(k, v, ttlSeconds) ==
    [key |-> k, value |-> v, createdAt |-> now,
     expiresAt |-> ExpiresAt(ResolveTTL(ttlSeconds))]

\* a variant of Expired that expires the entry at expiresAt itself
Expired_AtExpiresAt(e) ==
    /\ e.expiresAt # Null
    /\ Val(e.expiresAt) # 0
    /\ now >= Val(e.expiresAt)

\* entry.expiresAt && Date.now() > entry.expiresAt
Expired(e) ==
    /\ e.expiresAt # Null
    /\ Val(e.expiresAt) # 0
    /\ now > Val(e.expiresAt)

\* a string is truthy unless it is empty
Truthy(str) == str # <<>>

\* set's capacity rule: if (size >= maxSize) delete the first key of the Map;
\* the browser tier deletes it only if (firstKey)
EvictIfFullOf(t, m) ==
    IF Len(m) >= maxSize /\ Len(m) > 0
    THEN IF t = "server" \/ Truthy(m[1].key)
         THEN MapDelete(m, m[1].key)
         ELSE m
    ELSE m

EvictIfFull(m) == EvictIfFullOf(tier, m)

-----------------------------------------------------------------------------
(* What a call returns in the current state *)

\* a variant of get's result that does not look at expiresAt
GetRet_IgnoresExpiry(k) ==
    IF ~MapHas(cache, k) THEN Null
    ELSE Some(MapGet(cache, k).value)

GetRet(k) ==
    IF ~MapHas(cache, k) THEN Null
    ELSE IF Expired(MapGet(cache, k)) THEN Null
    ELSE Some(MapGet(cache, k).value)

\* a variant of has that only asks the Map
HasRet_MapOnly(k) == MapHas(cache, k)

HasRet(k) ==
    IF ~MapHas(cache, k) THEN FALSE
    ELSE IF Expired(MapGet(cache, k)) THEN FALSE
    ELSE TRUE

\* a variant of delete's result that looks at expiresAt as has does
DeleteRet_LiveOnly(k) ==
    IF ~MapHas(cache, k) THEN FALSE
    ELSE ~Expired(MapGet(cache, k))

DeleteRet(k) == MapHas(cache, k)

\* the keys deletePattern(pattern) deletes, and the count it returns
PatternKeys(pattern) ==
    IF PatternThrows(pattern) THEN {}
    ELSE {k \in KeySet(cache) : PatternTest(pattern, k)}

DeletePatternRet(pattern) == Cardinality(PatternKeys(pattern))

\* the history without the keys ks
Unwrite(ks) == {w \in written : w.key \notin ks}

WrittenKeys == {w.key : w \in written}

-----------------------------------------------------------------------------
(* stats(): the record and its hitRate string *)

DigitChars == <<"0", "1", "2", "3", "4", "5", "6", "7", "8", "9">>

\* String(n) for an integer n >= 0
RECURSIVE Digits(_)
Digits(n) ==
    IF n < 10 THEN <<DigitChars[n + 1]>>
    ELSE Digits(n \div 10) \o <<DigitChars[(n % 10) + 1]>>

\* the integer nearest to num / den, the larger one of two equally near
RoundHalfUp(num, den) == (2 * num + den) \div (2 * den)

\* a variant of ToFixed2 that cuts the digits after the second decimal
ToFixed2_Truncated(num, den) ==
    LET h == (num * 100) \div den
    IN  Digits(h \div 100) \o <<".">> \o <<DigitChars[((h % 100) \div 10) + 1],
                                             DigitChars[(h % 10) + 1]>>

\* (num / den).toFixed(2) for num >= 0, den > 0: the nearest multiple of 0.01,
\* the larger one of two equally near, always with two decimals
ToFixed2(num, den) ==
    LET h == RoundHalfUp(num * 100, den)
    IN  Digits(h \div 100) \o <<".">> \o <<DigitChars[((h % 100) \div 10) + 1],
                                             DigitChars[(h % 10) + 1]>>

\* hitRate before the '%': the server tier's fallback is the number 0, the
\* browser tier's is the string '0.00'
HitRateOf(t) ==
    IF stats.hits + stats.misses > 0
    THEN ToFixed2(stats.hits * 100, stats.hits + stats.misses)
    ELSE IF t = "server" THEN Digits(0) ELSE <<"0", ".", "0", "0">>

\* what stats() returns in tier t
StatsRetOf(t) ==
    [type |-> "in-memory", size |-> Len(cache), maxSize |-> maxSize,
     hits |-> stats.hits, misses |-> stats.misses,
     sets |-> stats.sets, deletes |-> stats.deletes,
     hitRate |-> HitRateOf(t) \o <<"%">>]

StatsRet == StatsRetOf(tier)

-----------------------------------------------------------------------------
(* The state after construction *)

ZeroStats == [hits |-> 0, misses |-> 0, sets |-> 0, deletes |-> 0]

\* nothing has been called yet
EmptyLog == [gets |-> 0, sets |-> 0, cleared |-> FALSE, failed |-> FALSE]

\* the cache on its own, outside a server process
NoApp == [phase |-> "none"]

Init ==
    /\ tier \in Tiers
    /\ defaultTTL \in DefaultTTLs
    /\ maxSize \in MaxSizes
    /\ cache = <<>>
    /\ stats = ZeroStats
    /\ now = StartTime
    /\ written = {}
    /\ everSet = {}
    /\ log = EmptyLog
    /\ app = NoApp

-----------------------------------------------------------------------------
(* The operations *)

\* a variant of get that counts nothing when it finds the entry expired
Get_NoMissOnExpiry(k) ==
    /\ cache' = IF MapHas(cache, k) /\ Expired(MapGet(cache, k))
                THEN MapDelete(cache, k) ELSE cache
    /\ stats' = IF ~MapHas(cache, k) THEN [stats EXCEPT !.misses = @ + 1]
                ELSE IF Expired(MapGet(cache, k)) THEN stats
                ELSE [stats EXCEPT !.hits = @ + 1]
    /\ log' = [log EXCEPT !.gets = @ + 1]
    /\ UNCHANGED <<tier, defaultTTL, maxSize, now, written, everSet>>

Get(k) ==
    /\ cache' = IF MapHas(cache, k) /\ Expired(MapGet(cache, k))
                THEN MapDelete(cache, k) ELSE cache
    /\ stats' = IF GetRet(k) = Null
                THEN [stats EXCEPT !.misses = @ + 1]
                ELSE [stats EXCEPT !.hits = @ + 1]
    /\ log' = [log EXCEPT !.gets = @ + 1]
    /\ UNCHANGED <<tier, defaultTTL, maxSize, now, written, everSet>>

Set(k, v, ttlSeconds) ==
    /\ cache' = MapSet(EvictIfFull(cache), k, NewEntry(k, v, ttlSeconds))
    /\ stats' = [stats EXCEPT !.sets = @ + 1]
    /\ written' = Unwrite((KeySet(cache) \ KeySet(EvictIfFull(cache))) \cup {k})
                    \cup {[key |-> k, value |-> v,
                           expiresAt |-> NewEntry(k, v, ttlSeconds).expiresAt]}
    /\ everSet' = everSet \cup {k}
    /\ log' = [log EXCEPT !.sets = @ + 1, !.cleared = FALSE]
    /\ UNCHANGED <<tier, defaultTTL, maxSize, now>>

\* a variant of delete that counts every call, also one that removed nothing
Delete_CountsAlways(k) ==
    /\ cache' = MapDelete(cache, k)
    /\ stats' = [stats EXCEPT !.deletes = @ + 1]
    /\ written' = Unwrite({k})
    /\ UNCHANGED <<tier, defaultTTL, maxSize, now, everSet, log>>

Delete(k) ==
    /\ cache' = MapDelete(cache, k)
    /\ stats' = IF DeleteRet(k)
                THEN [stats EXCEPT !.deletes = @ + 1] ELSE stats
    /\ written' = Unwrite({k})
    /\ UNCHANGED <<tier, defaultTTL, maxSize, now, everSet, log>>

\* new RegExp throws before the loop; otherwise the matching keys are deleted
DeletePattern(pattern) ==
    IF PatternThrows(pattern)
    THEN /\ log' = [log EXCEPT !.failed = TRUE]
         /\ UNCHANGED <<tier, defaultTTL, maxSize, now, everSet, cache, stats, written>>
    ELSE /\ cache' = LET keep(e) == e.key \notin PatternKeys(pattern)
                     IN  SelectSeq(cache, keep)
         /\ stats' = [stats EXCEPT !.deletes = @ + DeletePatternRet(pattern)]
         /\ written' = Unwrite(PatternKeys(pattern))
         /\ UNCHANGED <<tier, defaultTTL, maxSize, now, everSet, log>>

\* a variant of clear that resets the counters and keeps the entries
Clear_StatsOnly ==
    /\ stats' = ZeroStats
    /\ written' = {}
    /\ everSet' = {}
    /\ log' = [log EXCEPT !.gets = 0, !.sets = 0, !.cleared = @ \/ cache # <<>>]
    /\ UNCHANGED <<tier, defaultTTL, maxSize, now, cache>>

\* a variant of clear that empties the Map and keeps the counters
Clear_EntriesOnly ==
    /\ cache' = <<>>
    /\ written' = {}
    /\ everSet' = {}
    /\ log' = [log EXCEPT !.gets = 0, !.sets = 0, !.cleared = @ \/ cache # <<>>]
    /\ UNCHANGED <<tier, defaultTTL, maxSize, now, stats>>

Clear ==
    /\ cache' = <<>>
    /\ stats' = ZeroStats
    /\ written' = {}
    /\ everSet' = {}
    /\ log' = [log EXCEPT !.gets = 0, !.sets = 0, !.cleared = @ \/ cache # <<>>]
    /\ UNCHANGED <<tier, defaultTTL, maxSize, now>>

\* a variant of has that counts a miss when it finds the entry expired
Has_CountsMiss(k) ==
    /\ cache' = IF MapHas(cache, k) /\ Expired(MapGet(cache, k))
                THEN MapDelete(cache, k) ELSE cache
    /\ stats' = IF MapHas(cache, k) /\ Expired(MapGet(cache, k))
                THEN [stats EXCEPT !.misses = @ + 1] ELSE stats
    /\ UNCHANGED <<tier, defaultTTL, maxSize, now, written, everSet, log>>

Has(k) ==
    /\ cache' = IF MapHas(cache, k) /\ Expired(MapGet(cache, k))
                THEN MapDelete(cache, k) ELSE cache
    /\ UNCHANGED <<tier, defaultTTL, maxSize, stats, now, written, everSet, log>>

\* stats() reads the counters and the size of the Map and assigns nothing
Stats == UNCHANGED <<tier, defaultTTL, maxSize, cache, stats, now, written, everSet, log>>

\* a variant of the sweep that removes every entry that has an expiry time,
\* passed or not
Cleanup_AnyExpiry ==
    /\ tier = "server"
    /\ cache' = LET keep(e) == e.expiresAt = Null
                IN  SelectSeq(cache, keep)
    /\ UNCHANGED <<tier, defaultTTL, maxSize, stats, now, written, everSet, log>>

\* the background sweep: only the server tier's constructor starts the timer
Cleanup ==
    /\ tier = "server"
    /\ cache' = LET keep(e) == ~Expired(e)
                IN  SelectSeq(cache, keep)
    /\ UNCHANGED <<tier, defaultTTL, maxSize, stats, now, written, everSet, log>>

\* time passes
Tick ==
    /\ now + TickMs <= EndTime
    /\ now' = now + TickMs
    /\ UNCHANGED <<tier, defaultTTL, maxSize, cache, stats, written, everSet, log, app>>

\* the calls counted since construction or the last clear
Calls == stats.hits + stats.misses + stats.sets + stats.deletes

\* the calls a program makes on a cache it holds, the sweep and the clock
Next ==
    \/ \E k \in Keys : Calls < MaxOps /\ Get(k) /\ UNCHANGED app
    \/ \E k \in Keys, v \in Values, t \in TTLArgs :
          Calls < MaxOps /\ Set(k, v, t) /\ UNCHANGED app
    \/ \E k \in Keys : Calls < MaxOps /\ Delete(k) /\ UNCHANGED app
    \/ \E p \in Patterns :
          Calls + DeletePatternRet(p) <= MaxOps /\ DeletePattern(p) /\ UNCHANGED app
    \/ Clear /\ UNCHANGED app
    \/ \E k \in Keys : Has(k) /\ UNCHANGED app
    \/ Stats /\ UNCHANGED app
    \/ Cleanup /\ UNCHANGED app
    \/ Tick

Spec == Init /\ [][Next]_vars

-----------------------------------------------------------------------------
(* deletePattern on its own: a cache built with the default maxSize, keys  *)
(* and patterns that exercise the compiled regular expression              *)

InitPattern ==
    /\ tier \in Tiers
    /\ defaultTTL = Null
    /\ maxSize = DefaultMaxSize
    /\ cache = <<>>
    /\ stats = ZeroStats
    /\ now = StartTime
    /\ written = {}
    /\ everSet = {}
    /\ log = EmptyLog
    /\ app = NoApp

NextPattern ==
    \/ \E k \in GlobKeys :
          stats.sets < MaxPatternOps /\ Set(k, << <<1, 1>> >>, Null) /\ UNCHANGED app
    \/ \E p \in GlobPatterns \cup MetaPatterns : DeletePattern(p) /\ UNCHANGED app
    \/ Clear /\ UNCHANGED app

SpecPattern == InitPattern /\ [][NextPattern]_vars

-----------------------------------------------------------------------------
(* stats() on its own: many reads of a stored and of a missing key, so that *)
(* the hit rate takes values that have to be rounded                        *)

NextStats ==
    \/ \E k \in {Str_booksAll, Str_usersAll} :
          log.gets < MaxReads /\ Get(k) /\ UNCHANGED app
    \/ log.sets < MaxStatsSets /\ Set(Str_booksAll, << <<1, 1>> >>, Null) /\ UNCHANGED app
    \/ Delete(Str_booksAll) /\ UNCHANGED app
    \/ Clear /\ UNCHANGED app
    \/ Stats /\ UNCHANGED app

SpecStats == InitPattern /\ [][NextStats]_vars

-----------------------------------------------------------------------------
(* The server: the module of the API server creates the cache singleton    *)
(* through the factory while it loads, then serves requests.  app is        *)
(*   phase          "loading", "serving", or "crashed" (the load threw)     *)
(*   type           cacheConfig.type ("" when none is configured)           *)
(*   cacheInstance  the singleton: Null, or Some(class of the object)       *)
(*   db             the revision of book 1 in the database                  *)
(*   pc, rows       where the read being served is, and the rows it read    *)
(*   wpc            where the write being served is                         *)
(*   response       the response to the last request, Null before it ends   *)
(*   served         the requests taken so far                               *)
(* Each await of a handler ends a step.  SpecServer serves one request at   *)
(* a time; SpecConcurrent lets a read and a write interleave at their       *)
(* awaits, as the event loop does.                                          *)

\* the own properties of CacheFactory.cacheTypes
RegistryTypes == {"memory", "redis"}

ConfigTypes == {"", "memory", "redis", "memcached", "constructor"}

\* this.cacheTypes[type]: an own property of the object literal, or a property
\* inherited from Object.prototype ('constructor' is the function Object)
CacheTypesLookup(type) ==
    CASE type = "memory" -> Some("InMemoryCache")
      [] type = "redis" -> Some("RedisCache")
      [] type = "constructor" -> Some("Object")
      [] OTHER -> Null

\* config.type || 'memory'
CreateType(configType) == IF configType = "" THEN "memory" ELSE configType

\* CacheFactory.create throws when the lookup gives nothing
CreateThrows(configType) == CacheTypesLookup(CreateType(configType)) = Null

\* the class of the object new CacheClass(options) returns; new Object(options)
\* returns options itself, an object without cache methods
CreateRet(configType) == Val(CacheTypesLookup(CreateType(configType)))

\* does a call of get, set or deletePattern on the singleton throw?  RedisCache
\* throws while this.client is null, which it always is; a plain object has
\* no such method
CacheCallThrows == app.cacheInstance # Some("InMemoryCache")

\* the rows the database returns for the books query
BooksOf(revision) == << <<1, revision>> >>

Respond(status, body) ==
    [app EXCEPT !.response = Some([status |-> status, body |-> body]),
                !.pc = "idle", !.rows = Null]

\* the answer of a write handler
RespondWrite(status, body) ==
    [app EXCEPT !.response = Some([status |-> status, body |-> body]),
                !.wpc = "idle"]

\* no request is in flight
NoRequest == app.pc = "idle" /\ app.wpc = "idle"

NoCacheChange ==
    UNCHANGED <<tier, defaultTTL, maxSize, cache, stats, now, written, everSet>>

InitServer ==
    /\ tier = "server"
    /\ defaultTTL = Null
    /\ maxSize = DefaultMaxSize
    /\ cache = <<>>
    /\ stats = ZeroStats
    /\ now = StartTime
    /\ written = {}
    /\ everSet = {}
    /\ log = EmptyLog
    /\ \E type \in ConfigTypes :
          app = [phase |-> "loading", type |-> type, cacheInstance |-> Null,
                 db |-> 1, pc |-> "idle", wpc |-> "idle", rows |-> Null,
                 response |-> Null, served |-> 0]

\* the server module loads: const cache = getCache(), the routes, app.listen.
\* getCache assigns the singleton only after CacheFactory.create returned.
LoadModule ==
    /\ app.phase = "loading"
    /\ app' = IF CreateThrows(app.type)
              THEN [app EXCEPT !.phase = "crashed"]
              ELSE [app EXCEPT !.phase = "serving",
                               !.cacheInstance = Some(CreateRet(app.type))]
    /\ NoCacheChange /\ UNCHANGED log

\* GET /api/books up to its first await: cache.get, and the answer on a hit;
\* a throw of cache.get lands in the handler's catch
GetBooksCacheGetIn(concurrent) ==
    /\ app.phase = "serving" /\ app.pc = "idle" /\ app.served < MaxRequests
    /\ concurrent \/ app.wpc = "idle"
    /\ IF CacheCallThrows
       THEN /\ app' = [Respond(500, Null) EXCEPT !.served = @ + 1]
            /\ log' = [log EXCEPT !.failed = TRUE]
            /\ NoCacheChange
       ELSE /\ Get(Str_booksAll)
            /\ app' = IF GetRet(Str_booksAll) # Null
                      THEN [Respond(200, GetRet(Str_booksAll)) EXCEPT !.served = @ + 1]
                      ELSE [app EXCEPT !.pc = "query", !.response = Null,
                                       !.served = @ + 1]

GetBooksCacheGet == GetBooksCacheGetIn(FALSE)

\* GET /api/books after a miss: the queries on the database
GetBooksQuery ==
    /\ app.pc = "query"
    /\ app' = [app EXCEPT !.pc = "set", !.rows = Some(BooksOf(app.db))]
    /\ NoCacheChange /\ UNCHANGED log

\* GET /api/books after the queries: cache.set and the answer
GetBooksCacheSet ==
    /\ app.pc = "set"
    /\ Set(Str_booksAll, Val(app.rows), Null)
    /\ app' = Respond(200, app.rows)

\* PUT /api/books/:id up to connection.commit()
PutBookCommitIn(concurrent) ==
    /\ app.phase = "serving" /\ app.wpc = "idle" /\ app.served < MaxRequests
    /\ concurrent \/ app.pc = "idle"
    /\ app.db < MaxRevision
    /\ app' = [app EXCEPT !.db = @ + 1, !.wpc = "invalidate", !.response = Null,
                          !.served = @ + 1]
    /\ NoCacheChange /\ UNCHANGED log

PutBookCommit == PutBookCommitIn(FALSE)

\* PUT /api/books/:id after the commit: cache.deletePattern('books:*') and the
\* answer; a throw lands in the catch (the rollback after the commit undoes
\* nothing)
PutBookInvalidate ==
    /\ app.wpc = "invalidate"
    /\ IF CacheCallThrows
       THEN /\ app' = RespondWrite(500, Null)
            /\ log' = [log EXCEPT !.failed = TRUE]
            /\ NoCacheChange
       ELSE /\ DeletePattern(Pat_books)
            /\ app' = RespondWrite(200, Some(BooksOf(app.db)))

\* POST /api/issues and PUT /api/issues/:id: the transaction changes
\* books.available_copies, a column of the rows GET /api/books returns; the
\* handler calls no cache method and answers with the issue, not with books
PostIssue ==
    /\ app.phase = "serving" /\ NoRequest /\ app.served < MaxRequests
    /\ app.db < MaxRevision
    /\ app' = [app EXCEPT !.db = @ + 1, !.served = @ + 1,
                          !.response = Some([status |-> 200, body |-> Null])]
    /\ NoCacheChange /\ UNCHANGED log

NextServer ==
    \/ LoadModule
    \/ GetBooksCacheGet
    \/ GetBooksQuery
    \/ GetBooksCacheSet
    \/ PutBookCommit
    \/ PutBookInvalidate
    \/ PostIssue
    \/ app.cacheInstance = Some("InMemoryCache") /\ Cleanup /\ UNCHANGED app
    \/ Tick

SpecServer == InitServer /\ [][NextServer]_vars

\* a GET /api/books and a PUT /api/books/:id in flight together
NextConcurrent ==
    \/ LoadModule
    \/ GetBooksCacheGetIn(TRUE)
    \/ GetBooksQuery
    \/ GetBooksCacheSet
    \/ PutBookCommitIn(TRUE)
    \/ PutBookInvalidate
    \/ app.cacheInstance = Some("InMemoryCache") /\ Cleanup /\ UNCHANGED app
    \/ Tick

SpecConcurrent == InitServer /\ [][NextConcurrent]_vars

-----------------------------------------------------------------------------
(* Several GET /api/books in flight at once on the in-memory backend.  app *)
(* is                                                                       *)
(*   db        the revision of book 1 in the database                       *)
(*   readers   per request in flight: pc ("idle", "query", "set") and the   *)
(*             rows its queries returned                                    *)
(*   wpc       where the PUT /api/books/:id in flight is                     *)
(*   loads     the queries on the database the reads have run               *)
(*   served    the requests taken so far                                    *)

NumReaders == 2
MaxStampedeRequests == 4

Readers == 1..NumReaders

ReadersAt(pc) == {r \in Readers : app.readers[r].pc = pc}

InitStampede ==
    /\ tier = "server"
    /\ defaultTTL = Null
    /\ maxSize = DefaultMaxSize
    /\ cache = <<>>
    /\ stats = ZeroStats
    /\ now = StartTime
    /\ written = {}
    /\ everSet = {}
    /\ log = EmptyLog
    /\ app = [phase |-> "stampede", db |-> 1,
              readers |-> [r \in Readers |-> [pc |-> "idle", rows |-> Null]],
              wpc |-> "idle", loads |-> 0, served |-> 0]

\* a variant of the read that starts no load while another read is loading
\* the key: it waits for that one's value
ReaderCacheGet_SharesLoad(r) ==
    /\ app.readers[r].pc = "idle" /\ app.served < MaxStampedeRequests
    /\ GetRet(Str_booksAll) = Null => ReadersAt("query") \cup ReadersAt("set") = {}
    /\ Get(Str_booksAll)
    /\ app' = IF GetRet(Str_booksAll) # Null
              THEN [app EXCEPT !.served = @ + 1]
              ELSE [app EXCEPT !.readers[r].pc = "query", !.served = @ + 1]

\* GET /api/books up to its first await after cache.get: a hit answers, a
\* miss goes on to the queries whatever the other requests are doing
ReaderCacheGet(r) ==
    /\ app.readers[r].pc = "idle" /\ app.served < MaxStampedeRequests
    /\ Get(Str_booksAll)
    /\ app' = IF GetRet(Str_booksAll) # Null
              THEN [app EXCEPT !.served = @ + 1]
              ELSE [app EXCEPT !.readers[r].pc = "query", !.served = @ + 1]

\* the queries on the database
ReaderQuery(r) ==
    /\ app.readers[r].pc = "query"
    /\ app' = [app EXCEPT !.readers[r] = [pc |-> "set", rows |-> Some(BooksOf(app.db))],
                          !.loads = @ + 1]
    /\ NoCacheChange /\ UNCHANGED log

\* cache.set(cacheKey, books) and the answer
ReaderCacheSet(r) ==
    /\ app.readers[r].pc = "set"
    /\ Set(Str_booksAll, Val(app.readers[r].rows), Null)
    /\ app' = [app EXCEPT !.readers[r] = [pc |-> "idle", rows |-> Null]]

\* PUT /api/books/:id up to connection.commit()
WriterCommit ==
    /\ app.wpc = "idle" /\ app.served < MaxStampedeRequests
    /\ app.db < MaxRevision
    /\ app' = [app EXCEPT !.db = @ + 1, !.wpc = "invalidate", !.served = @ + 1]
    /\ NoCacheChange /\ UNCHANGED log

\* cache.deletePattern('books:*') and the answer
WriterInvalidate ==
    /\ app.wpc = "invalidate"
    /\ DeletePattern(Pat_books)
    /\ app' = [app EXCEPT !.wpc = "idle"]

NextStampede ==
    \/ \E r \in Readers : ReaderCacheGet(r)
    \/ \E r \in Readers : ReaderQuery(r)
    \/ \E r \in Readers : ReaderCacheSet(r)
    \/ WriterCommit
    \/ WriterInvalidate

SpecStampede == InitStampede /\ [][NextStampede]_vars

-----------------------------------------------------------------------------
(* The key catalog CacheKeys of both tiers, and the cache calls the        *)
(* handlers make with it: a read stores under a generated key, a write     *)
(* deletes by the pattern of its resource.                                  *)

MaxCatalogSets == 3

Resources == {"books", "users", "categories", "writers", "issues", "book-requests"}

\* the part of a template literal before ${...}
ResourcePrefix(r) ==
    CASE r = "books" -> <<"b","o","o","k","s",":">>
      [] r = "users" -> <<"u","s","e","r","s",":">>
      [] r = "categories" -> <<"c","a","t","e","g","o","r","i","e","s",":">>
      [] r = "writers" -> <<"w","r","i","t","e","r","s",":">>
      [] r = "issues" -> <<"i","s","s","u","e","s",":">>
      [] r = "book-requests" -> <<"b","o","o","k","-","r","e","q","u","e","s","t","s",":">>

\* allBooks(), allUsers(), ...
CacheKeys_all(r) == ResourcePrefix(r) \o <<"a","l","l">>
\* book(id), user(id), category(id), writer(id)
CacheKeys_item(r, id) == ResourcePrefix(r) \o id
\* bookSearch(query), userSearch(query)
CacheKeys_search(r, query) ==
    ResourcePrefix(r) \o <<"s","e","a","r","c","h",":">> \o query
\* patterns.allBooks, patterns.allUsers, ...
CacheKeys_patterns(r) == ResourcePrefix(r) \o <<"*">>

\* the resources the catalog of a tier names
CatalogResources(t) ==
    IF t = "server" THEN {"books", "users", "categories", "writers"} ELSE Resources
\* the resources with a per-id generator and with a search generator
ItemResources(t) == {"books", "users", "categories", "writers"}
SearchResources(t) == IF t = "server" THEN {"books", "users"} ELSE {}

\* arguments: req.params.id is the decoded path segment, any string without
\* '/'; the database compares it to the numeric id, so '1' and '1\n' both
\* find book 1
CatalogIds == {<<"1">>, <<"1", "\n">>}
CatalogQueries == {<<"a">>}

\* the keys the catalog of tier t generates for resource r
CatalogKeys(t, r) ==
    IF r \notin CatalogResources(t) THEN {}
    ELSE {CacheKeys_all(r)}
         \cup (IF r \in ItemResources(t)
                THEN {CacheKeys_item(r, id) : id \in CatalogIds} ELSE {})
         \cup (IF r \in SearchResources(t)
                THEN {CacheKeys_search(r, q) : q \in CatalogQueries} ELSE {})

AllCatalogKeys(t) == UNION {CatalogKeys(t, r) : r \in CatalogResources(t)}

NextCatalog ==
    \/ \E k \in AllCatalogKeys(tier) :
          stats.sets < MaxCatalogSets /\ Set(k, << <<1, 1>> >>, Null) /\ UNCHANGED app
    \/ \E r \in CatalogResources(tier) :
          DeletePattern(CacheKeys_patterns(r)) /\ UNCHANGED app

SpecCatalog == InitPattern /\ [][NextCatalog]_vars

-----------------------------------------------------------------------------
(* The collection helpers of the browser tier.  A cached collection is a   *)
(* sequence of items <<id, revision>>.  Each helper is synchronous: its    *)
(* get and its set are one step.                                           *)

MaxArrayLen == 3
MaxArraySets == 3
MaxArrayGets == 3

ArrayKeys == {Str_booksAll, Str_usersAll}
ArrayItems == {<<1, 1>>, <<1, 2>>, <<2, 1>>}
ArrayIds == {1, 2}
ArrayValues == {<<>>, << <<1, 1>> >>, << <<1, 1>>, <<2, 1>> >>}

\* [...cached, item]
ArrayAppend(cached, item) == Append(cached, item)

\* cached.map(i => i.id === item.id ? item : i)
ArrayReplace(cached, item) ==
    [i \in 1..Len(cached) |-> IF cached[i][1] = item[1] THEN item ELSE cached[i]]

RECURSIVE ArrayFilter(_, _)
\* cached.filter(i => i.id !== id)
ArrayFilter(cached, id) ==
    IF cached = <<>> THEN <<>>
    ELSE IF Head(cached)[1] # id
         THEN <<Head(cached)>> \o ArrayFilter(Tail(cached), id)
         ELSE ArrayFilter(Tail(cached), id)

\* const cached = this.get(arrayKey); if (!cached) return;
\* this.set(arrayKey, updated): a miss is the get alone, a hit is the get and
\* the set of the new array under the default TTL
StoreArray(k, updated) ==
    IF GetRet(k) = Null
    THEN Get(k)
    ELSE /\ cache' = MapSet(EvictIfFull(cache), k, NewEntry(k, updated, Null))
         /\ stats' = [stats EXCEPT !.hits = @ + 1, !.sets = @ + 1]
         /\ written' = Unwrite((KeySet(cache) \ KeySet(EvictIfFull(cache))) \cup {k})
                         \cup {[key |-> k, value |-> updated,
                                expiresAt |-> NewEntry(k, updated, Null).expiresAt]}
         /\ everSet' = everSet \cup {k}
         /\ log' = [log EXCEPT !.gets = @ + 1, !.sets = @ + 1, !.cleared = FALSE]
         /\ UNCHANGED <<tier, defaultTTL, maxSize, now>>

\* the array a helper works on; <<>> stands in on a miss, where none is built
CachedArray(k) == IF GetRet(k) = Null THEN <<>> ELSE Val(GetRet(k))

\* a variant of addToArray that starts a collection on an uncached key
AddToArray_CreatesEntry(k, item) ==
    IF GetRet(k) = Null
    THEN Set(k, <<item>>, Null)
    ELSE StoreArray(k, ArrayAppend(CachedArray(k), item))

AddToArray(k, item) == StoreArray(k, ArrayAppend(CachedArray(k), item))

\* a variant of updateInArray that appends the item when no element matches
UpdateInArray_Upsert(k, item) ==
    StoreArray(k, IF \E i \in 1..Len(CachedArray(k)) : CachedArray(k)[i][1] = item[1]
                  THEN ArrayReplace(CachedArray(k), item)
                  ELSE ArrayAppend(CachedArray(k), item))

UpdateInArray(k, item) == StoreArray(k, ArrayReplace(CachedArray(k), item))

RemoveFromArray(k, id) == StoreArray(k, ArrayFilter(CachedArray(k), id))

InitArray ==
    /\ tier = "browser"
    /\ defaultTTL \in DefaultTTLs
    /\ maxSize \in {1, DefaultMaxSize}
    /\ cache = <<>>
    /\ stats = ZeroStats
    /\ now = StartTime
    /\ written = {}
    /\ everSet = {}
    /\ log = EmptyLog
    /\ app = NoApp

NextArray ==
    \/ \E k \in ArrayKeys, v \in ArrayValues :
          log.sets < MaxArraySets /\ Set(k, v, Null) /\ UNCHANGED app
    \/ \E k \in ArrayKeys, item \in ArrayItems :
          /\ log.sets < MaxArraySets /\ log.gets < MaxArrayGets
          /\ Len(CachedArray(k)) < MaxArrayLen
          /\ AddToArray(k, item) /\ UNCHANGED app
    \/ \E k \in ArrayKeys, item \in ArrayItems :
          /\ log.sets < MaxArraySets /\ log.gets < MaxArrayGets
          /\ UpdateInArray(k, item) /\ UNCHANGED app
    \/ \E k \in ArrayKeys, id \in ArrayIds :
          /\ log.sets < MaxArraySets /\ log.gets < MaxArrayGets
          /\ RemoveFromArray(k, id) /\ UNCHANGED app
    \/ \E k \in ArrayKeys : log.gets < MaxArrayGets /\ Get(k) /\ UNCHANGED app
    \/ Tick

SpecArray == InitArray /\ [][NextArray]_vars

-----------------------------------------------------------------------------
(* The registry of the factory.  CacheFactory.cacheTypes is a plain object: *)
(* own properties on top of a prototype.  app is                            *)
(*   own         the own properties: name -> Null or Some(class)            *)
(*   proto       the prototype, "Object.prototype" until it is replaced     *)
(*   registered  the class last passed to register under each name         *)
(*   created     what the last create returned, Null if it threw or none    *)
(*   calls       the calls of register and create so far                    *)

MaxFactoryCalls == 3

FactoryNames == {"", "memory", "redis", "custom", "constructor", "__proto__"}
CustomClasses == {"CustomCache", "OtherCache"}
MaxSizeOption == 5
OptionArgs == {Null, Some([maxSize |-> MaxSizeOption])}

\* static cacheTypes = { 'memory': InMemoryCache, 'redis': RedisCache }
InitialOwn ==
    [n \in FactoryNames |->
        IF n \in RegistryTypes THEN CacheTypesLookup(n) ELSE Null]

\* this.cacheTypes[name] = CacheClass: '__proto__' is the accessor of
\* Object.prototype, the assignment replaces the prototype and adds no own
\* property; any other name becomes an own property
RegistryAssign(reg, name, class) ==
    IF name = "__proto__"
    THEN [reg EXCEPT !.proto = class]
    ELSE [reg EXCEPT !.own[name] = Some(class)]

\* this.cacheTypes[type]: the own property, else what the prototype chain
\* gives: the prototype itself for '__proto__', the constructor of
\* Object.prototype or of a function for 'constructor'
RegistryLookup(reg, type) ==
    IF type = "__proto__" THEN Some(reg.proto)
    ELSE IF reg.own[type] # Null THEN reg.own[type]
    ELSE IF type = "constructor"
         THEN IF reg.proto = "Object.prototype" THEN Some("Object")
              ELSE Some("Function")
    ELSE Null

\* config.options || {}
CreateOptions(options) == IF options = Null THEN [maxSize |-> Null] ELSE Val(options)

\* CacheFactory.create({type, options}): Null when it throws (no class, new
\* of Object.prototype, which is no constructor, or new Function(options),
\* whose body '[object Object]' does not parse), else the object
\* new CacheClass(options) returns
FactoryCreate(reg, configType, options) ==
    LET CacheClass == RegistryLookup(reg, CreateType(configType))
    IN  IF CacheClass \in {Null, Some("Object.prototype"), Some("Function")}
        THEN Null
        ELSE Some([class |-> Val(CacheClass), options |-> CreateOptions(options)])

\* Object.keys(this.cacheTypes)
GetAvailableTypes(reg) == {n \in FactoryNames : reg.own[n] # Null}

InitFactory ==
    /\ tier = "server"
    /\ defaultTTL = Null
    /\ maxSize = DefaultMaxSize
    /\ cache = <<>>
    /\ stats = ZeroStats
    /\ now = StartTime
    /\ written = {}
    /\ everSet = {}
    /\ log = EmptyLog
    /\ app = [phase |-> "factory", own |-> InitialOwn, proto |-> "Object.prototype",
              registered |-> [n \in FactoryNames |-> Null],
              created |-> Null, calls |-> 0]

Register(name, class) ==
    /\ app.calls < MaxFactoryCalls
    /\ app' = [app EXCEPT !.own = RegistryAssign(app, name, class).own,
                          !.proto = RegistryAssign(app, name, class).proto,
                          !.registered[name] = Some(class),
                          !.calls = @ + 1]
    /\ NoCacheChange /\ UNCHANGED log

Create(configType, options) ==
    /\ app.calls < MaxFactoryCalls
    /\ app' = [app EXCEPT !.created = FactoryCreate(app, configType, options),
                          !.calls = @ + 1]
    /\ NoCacheChange /\ UNCHANGED log

NextFactory ==
    \/ \E name \in FactoryNames, class \in CustomClasses : Register(name, class)
    \/ \E type \in FactoryNames, options \in OptionArgs : Create(type, options)

SpecFactory == InitFactory /\ [][NextFactory]_vars

-----------------------------------------------------------------------------
(* Every operation of the store next to the collection helpers, for the    *)
(* counters: the helpers exist in the browser tier, the sweep in the       *)
(* server tier.                                                            *)

MaxCounterCalls == 3

CounterValues == {<<>>, << <<1, 1>> >>}
CounterItems == {<<1, 2>>, <<2, 1>>}

InitCounters ==
    /\ tier \in Tiers
    /\ defaultTTL \in DefaultTTLs
    /\ maxSize = DefaultMaxSize
    /\ cache = <<>>
    /\ stats = ZeroStats
    /\ now = StartTime
    /\ written = {}
    /\ everSet = {}
    /\ log = EmptyLog
    /\ app = NoApp

\* a call of one of the three helpers
HelperCall(k, item) ==
    \/ AddToArray(k, item)
    \/ UpdateInArray(k, item)
    \/ RemoveFromArray(k, item[1])

NextCounters ==
    \/ \E k \in ArrayKeys : Calls < MaxCounterCalls /\ Get(k) /\ UNCHANGED app
    \/ \E k \in ArrayKeys, v \in CounterValues :
          Calls < MaxCounterCalls /\ Set(k, v, Null) /\ UNCHANGED app
    \/ \E k \in ArrayKeys : Calls < MaxCounterCalls /\ Delete(k) /\ UNCHANGED app
    \/ \E p \in {Pat_books, Pat_all} :
          Calls + DeletePatternRet(p) <= MaxCounterCalls
              /\ DeletePattern(p) /\ UNCHANGED app
    \/ \E k \in ArrayKeys : Has(k) /\ UNCHANGED app
    \/ Stats /\ UNCHANGED app
    \/ Clear /\ UNCHANGED app
    \/ Cleanup /\ UNCHANGED app
    \/ \E k \in ArrayKeys, item \in CounterItems :
          /\ tier = "browser" /\ Calls + 2 <= MaxCounterCalls
          /\ HelperCall(k, item) /\ UNCHANGED app
    \/ Tick

SpecCounters == InitCounters /\ [][NextCounters]_vars

-----------------------------------------------------------------------------
(* The browser's API module (booksApi, issuesApi) on the browser cache.    *)
(* A call is a cache read, an awaited request and a continuation that runs *)
(* to its end without interruption; the server is taken to answer from its *)
(* database. A book is <<id, revision, availableCopies>>, an issue is      *)
(* <<id, bookId, status>>; a single cached record is kept as a list of     *)
(* that one record. The actions of this section leave the history          *)
(* variables written, everSet and log alone.                               *)

\* cacheConfig.options.maxSize of the browser
BrowserMaxSize == 100

MaxApiCalls == 3
BookIds == {1, 2}
InitialBook(copies) == <<1, 1, copies>>

\* String(id)
IdStr(id) == IF id = 1 THEN <<"1">> ELSE <<"2">>

Key_allBooks == CacheKeys_all("books")
Key_book(id) == CacheKeys_item("books", IdStr(id))
Key_allIssues == CacheKeys_all("issues")

\* the store and its counters, and a cache call as a function of them
Store == [cache |-> cache, stats |-> stats]

Apply(s) == cache' = s.cache /\ stats' = s.stats

\* what get(k) returns on s
GetRetIn(s, k) ==
    IF MapHas(s.cache, k) /\ ~Expired(MapGet(s.cache, k))
    THEN Some(MapGet(s.cache, k).value) ELSE Null

\* get(k)
GetIn(s, k) ==
    [cache |-> IF MapHas(s.cache, k) /\ Expired(MapGet(s.cache, k))
               THEN MapDelete(s.cache, k) ELSE s.cache,
     stats |-> IF GetRetIn(s, k) = Null
               THEN [s.stats EXCEPT !.misses = @ + 1]
               ELSE [s.stats EXCEPT !.hits = @ + 1]]

\* set(k, v)
SetIn(s, k, v) ==
    [cache |-> MapSet(EvictIfFull(s.cache), k, NewEntry(k, v, Null)),
     stats |-> [s.stats EXCEPT !.sets = @ + 1]]

\* delete(k)
DeleteIn(s, k) ==
    [cache |-> MapDelete(s.cache, k),
     stats |-> IF MapHas(s.cache, k)
               THEN [s.stats EXCEPT !.deletes = @ + 1] ELSE s.stats]

\* addToArray(k, item)
AddToArrayIn(s, k, item) ==
    IF GetRetIn(s, k) = Null
    THEN GetIn(s, k)
    ELSE SetIn(GetIn(s, k), k, ArrayAppend(Val(GetRetIn(s, k)), item))

\* updateInArray(k, item)
UpdateInArrayIn(s, k, item) ==
    IF GetRetIn(s, k) = Null
    THEN GetIn(s, k)
    ELSE SetIn(GetIn(s, k), k, ArrayReplace(Val(GetRetIn(s, k)), item))

\* removeFromArray(k, id)
RemoveFromArrayIn(s, k, id) ==
    IF GetRetIn(s, k) = Null
    THEN GetIn(s, k)
    ELSE SetIn(GetIn(s, k), k, ArrayFilter(Val(GetRetIn(s, k)), id))

\* { ...book, availableCopies: book.availableCopies + delta }
WithDelta(book, delta) == <<book[1], book[2], book[3] + delta>>

\* allBooks.map(book => book.id === bookId ? {...} : book)
MapDelta(books, bookId, delta) ==
    [i \in 1..Len(books) |->
        IF books[i][1] = bookId THEN WithDelta(books[i], delta) ELSE books[i]]

\* updateBookAvailableCopies(bookId, delta): the list, then the record
UpdateListCopiesIn(s, bookId, delta) ==
    IF GetRetIn(s, Key_allBooks) = Null
    THEN GetIn(s, Key_allBooks)
    ELSE SetIn(GetIn(s, Key_allBooks), Key_allBooks,
               MapDelta(Val(GetRetIn(s, Key_allBooks)), bookId, delta))

UpdateRecordCopiesIn(s, bookId, delta) ==
    IF GetRetIn(s, Key_book(bookId)) = Null
    THEN GetIn(s, Key_book(bookId))
    ELSE SetIn(GetIn(s, Key_book(bookId)), Key_book(bookId),
               <<WithDelta(Val(GetRetIn(s, Key_book(bookId)))[1], delta)>>)

UpdateBookAvailableCopiesIn(s, bookId, delta) ==
    UpdateRecordCopiesIn(UpdateListCopiesIn(s, bookId, delta), bookId, delta)

\* the rows of a table with the given id, and the table without them
RowsOf(rows, id) ==
    LET is(r) == r[1] = id
    IN  SelectSeq(rows, is)

HasRow(rows, id) == RowsOf(rows, id) # <<>>

InitApi(copies) ==
    /\ tier = "browser"
    /\ defaultTTL = Null
    /\ maxSize = BrowserMaxSize
    /\ cache = <<>>
    /\ stats = ZeroStats
    /\ now = StartTime
    /\ written = {}
    /\ everSet = {}
    /\ log = EmptyLog
    /\ \E c \in copies :
          app = [phase |-> "api", books |-> <<InitialBook(c)>>, issues |-> <<>>,
                 nextBookId |-> 2, nextRev |-> 2, nextIssueId |-> 1,
                 calls |-> <<>>, started |-> 0, raced |-> FALSE]

ApiFrame == UNCHANGED <<tier, defaultTTL, maxSize, now, written, everSet, log>>

\* a call that has sent its request
ApiCall(op, req, cur) ==
    [id |-> app.started + 1, op |-> op, pc |-> "sent", req |-> req, cur |-> cur,
     ok |-> TRUE, resp |-> <<>>, after |-> {}, overtaken |-> FALSE]

CallAt(i, op, pc) ==
    /\ i \in 1..Len(app.calls)
    /\ app.calls[i].op = op
    /\ app.calls[i].pc = pc

\* the calls in flight without the i-th
WithoutCall(calls, i) == SubSeq(calls, 1, i - 1) \o SubSeq(calls, i + 1, Len(calls))

\* the server's answer reaches the i-th call
Answer(a, i, ok, resp) ==
    [a EXCEPT !.calls[i].pc = "answered", !.calls[i].ok = ok, !.calls[i].resp = resp]

\* a server step: the browser's cache is not involved
ServerFrame ==
    UNCHANGED <<tier, defaultTTL, maxSize, cache, stats, now, written, everSet, log>>

\* the list reads whose answer is already on its way back
AnsweredReads ==
    {app.calls[j].id : j \in {n \in 1..Len(app.calls) :
                                 app.calls[n].op = "getAll" /\ app.calls[n].pc = "answered"}}

\* the creates whose request the server has not handled yet
CreatesSent ==
    LET sent(c) == c.op = "create" /\ c.pc = "sent"
    IN  Len(SelectSeq(app.calls, sent))

\* the list reads fetched before the write of call i are marked when that
\* write's helper found the list uncached
MarkOvertaken(calls, i, missed) ==
    [j \in 1..Len(calls) |->
        IF missed /\ calls[j].id \in calls[i].after
        THEN [calls[j] EXCEPT !.overtaken = TRUE] ELSE calls[j]]

\* some id has different rows in the two lists
Differs(list, rows) == \E id \in BookIds : RowsOf(list, id) # RowsOf(rows, id)

\* booksApi.getAll up to the await
GetAllStart ==
    /\ app.started < MaxApiCalls
    /\ Apply(GetIn(Store, Key_allBooks))
    /\ app' = IF GetRetIn(Store, Key_allBooks) # Null
              THEN [app EXCEPT !.started = @ + 1]
              ELSE [app EXCEPT !.started = @ + 1,
                               !.calls = Append(@, ApiCall("getAll", <<>>, <<>>))]
    /\ ApiFrame

\* GET /api/books
ServeGetBooks(i) ==
    /\ CallAt(i, "getAll", "sent")
    /\ app' = Answer(app, i, TRUE, app.books)
    /\ ServerFrame

\* a variant of the continuation that stores the list as it is now
GetAllFinish_StoresCurrent(i) ==
    /\ CallAt(i, "getAll", "answered")
    /\ Apply(SetIn(Store, Key_allBooks, app.books))
    /\ app' = [app EXCEPT !.calls = WithoutCall(@, i), !.raced = FALSE]
    /\ ApiFrame

\* booksApi.getAll after the await: cache.set(cacheKey, books)
GetAllFinish(i) ==
    /\ CallAt(i, "getAll", "answered")
    /\ Apply(SetIn(Store, Key_allBooks, app.calls[i].resp))
    /\ app' = [app EXCEPT !.calls = WithoutCall(@, i),
                          !.raced = /\ app.calls[i].overtaken
                                    /\ Differs(app.calls[i].resp, app.books)]
    /\ ApiFrame

\* booksApi.getById up to the await
GetByIdStart(id) ==
    /\ app.started < MaxApiCalls
    /\ Apply(GetIn(Store, Key_book(id)))
    /\ app' = IF GetRetIn(Store, Key_book(id)) # Null
              THEN [app EXCEPT !.started = @ + 1]
              ELSE [app EXCEPT !.started = @ + 1,
                               !.calls = Append(@, ApiCall("getById", <<id>>, <<>>))]
    /\ ApiFrame

\* GET /api/books/:id: 404 when there is no such row
ServeGetBook(i) ==
    /\ CallAt(i, "getById", "sent")
    /\ LET rows == RowsOf(app.books, app.calls[i].req[1])
       IN  app' = Answer(app, i, rows # <<>>, rows)
    /\ ServerFrame

\* booksApi.getById after the await; fetchWithAuth throws on a 404
GetByIdFinish(i) ==
    /\ CallAt(i, "getById", "answered")
    /\ IF app.calls[i].ok
       THEN Apply(SetIn(Store, Key_book(app.calls[i].req[1]), app.calls[i].resp))
       ELSE UNCHANGED <<cache, stats>>
    /\ app' = [app EXCEPT !.calls = WithoutCall(@, i)]
    /\ ApiFrame

\* booksApi.create up to the await; the body is <<revision, availableCopies>>
CreateStart(copies) ==
    /\ app.started < MaxApiCalls
    /\ app.nextBookId + CreatesSent \in BookIds
    /\ app' = [app EXCEPT !.started = @ + 1, !.nextRev = @ + 1,
                  !.calls = Append(@, ApiCall("create", <<app.nextRev, copies>>, <<>>))]
    /\ UNCHANGED <<cache, stats>>
    /\ ApiFrame

\* POST /api/books: the row gets the next id, the answer repeats the body
ServePostBook(i) ==
    /\ CallAt(i, "create", "sent")
    /\ LET created == <<app.nextBookId, app.calls[i].req[1], app.calls[i].req[2]>>
       IN  app' = [Answer(app, i, TRUE, <<created>>) EXCEPT
                      !.books = Append(@, created),
                      !.nextBookId = @ + 1,
                      !.calls[i].after = AnsweredReads]
    /\ ServerFrame

\* booksApi.create after the await: addToArray, then set of the record
CreateFinish(i) ==
    /\ CallAt(i, "create", "answered")
    /\ LET created == app.calls[i].resp[1]
       IN  Apply(SetIn(AddToArrayIn(Store, Key_allBooks, created),
                       Key_book(created[1]), <<created>>))
    /\ app' = [app EXCEPT !.calls =
                  WithoutCall(MarkOvertaken(@, i, GetRetIn(Store, Key_allBooks) = Null), i)]
    /\ ApiFrame

\* booksApi.update up to the await; the body is the whole book
UpdateStart(id, copies) ==
    /\ app.started < MaxApiCalls
    /\ app' = [app EXCEPT !.started = @ + 1, !.nextRev = @ + 1,
                  !.calls = Append(@, ApiCall("update", <<id, app.nextRev, copies>>, <<>>))]
    /\ UNCHANGED <<cache, stats>>
    /\ ApiFrame

\* PUT /api/books/:id: UPDATE ... WHERE id = ?, the answer repeats the body
ServePutBook(i) ==
    /\ CallAt(i, "update", "sent")
    /\ app' = [Answer(app, i, TRUE, <<app.calls[i].req>>) EXCEPT
                  !.books = ArrayReplace(@, app.calls[i].req),
                  !.calls[i].after = AnsweredReads]
    /\ ServerFrame

\* booksApi.update after the await: updateInArray, then set of the record
UpdateFinish(i) ==
    /\ CallAt(i, "update", "answered")
    /\ LET updated == app.calls[i].resp[1]
       IN  Apply(SetIn(UpdateInArrayIn(Store, Key_allBooks, updated),
                       Key_book(updated[1]), <<updated>>))
    /\ app' = [app EXCEPT !.calls =
                  WithoutCall(MarkOvertaken(@, i, GetRetIn(Store, Key_allBooks) = Null), i)]
    /\ ApiFrame

\* booksApi.delete up to the await
DeleteStart(id) ==
    /\ app.started < MaxApiCalls
    /\ app' = [app EXCEPT !.started = @ + 1,
                  !.calls = Append(@, ApiCall("delete", <<id>>, <<>>))]
    /\ UNCHANGED <<cache, stats>>
    /\ ApiFrame

\* DELETE /api/books/:id
ServeDeleteBook(i) ==
    /\ CallAt(i, "delete", "sent")
    /\ app' = [Answer(app, i, TRUE, <<>>) EXCEPT
                  !.books = ArrayFilter(@, app.calls[i].req[1]),
                  !.calls[i].after = AnsweredReads]
    /\ ServerFrame

\* booksApi.delete after the await: removeFromArray, then delete of the record
DeleteFinish(i) ==
    /\ CallAt(i, "delete", "answered")
    /\ LET id == app.calls[i].req[1]
       IN  Apply(DeleteIn(RemoveFromArrayIn(Store, Key_allBooks, id), Key_book(id)))
    /\ app' = [app EXCEPT !.calls =
                  WithoutCall(MarkOvertaken(@, i, GetRetIn(Store, Key_allBooks) = Null), i)]
    /\ ApiFrame

\* the most calls in flight together
MaxInFlight == 2

\* getAll, create, update and delete of books, up to MaxInFlight at a time
NextBooksApi ==
    \/ Len(app.calls) < MaxInFlight /\ GetAllStart
    \/ Len(app.calls) < MaxInFlight /\ CreateStart(1)
    \/ \E id \in BookIds : Len(app.calls) < MaxInFlight /\ UpdateStart(id, 1)
    \/ \E id \in BookIds : Len(app.calls) < MaxInFlight /\ DeleteStart(id)
    \/ \E i \in 1..MaxInFlight : ServeGetBooks(i)
    \/ \E i \in 1..MaxInFlight : ServePostBook(i)
    \/ \E i \in 1..MaxInFlight : ServePutBook(i)
    \/ \E i \in 1..MaxInFlight : ServeDeleteBook(i)
    \/ \E i \in 1..MaxInFlight : GetAllFinish(i)
    \/ \E i \in 1..MaxInFlight : CreateFinish(i)
    \/ \E i \in 1..MaxInFlight : UpdateFinish(i)
    \/ \E i \in 1..MaxInFlight : DeleteFinish(i)
    \/ Tick

SpecBooksApi == InitApi({1}) /\ [][NextBooksApi]_vars

-----------------------------------------------------------------------------
(* issuesApi and the copies it keeps in the cached books, one call at a    *)
(* time                                                                    *)

CopyValues == {0, 1}
Statuses == {"issued", "returned"}

\* issuesApi.getAll up to the await
IssuesGetAllStart ==
    /\ app.started < MaxApiCalls
    /\ Apply(GetIn(Store, Key_allIssues))
    /\ app' = IF GetRetIn(Store, Key_allIssues) # Null
              THEN [app EXCEPT !.started = @ + 1]
              ELSE [app EXCEPT !.started = @ + 1,
                               !.calls = Append(@, ApiCall("issuesGetAll", <<>>, <<>>))]
    /\ ApiFrame

\* GET /api/issues
ServeGetIssues(i) ==
    /\ CallAt(i, "issuesGetAll", "sent")
    /\ app' = Answer(app, i, TRUE, app.issues)
    /\ ServerFrame

\* issuesApi.getAll after the await
IssuesGetAllFinish(i) ==
    /\ CallAt(i, "issuesGetAll", "answered")
    /\ Apply(SetIn(Store, Key_allIssues, app.calls[i].resp))
    /\ app' = [app EXCEPT !.calls = WithoutCall(@, i)]
    /\ ApiFrame

\* issuesApi.create up to the await, for a book of the books table
IssueCreateStart(bookId) ==
    /\ app.started < MaxApiCalls
    /\ HasRow(app.books, bookId)
    /\ app' = [app EXCEPT !.started = @ + 1,
                  !.calls = Append(@, ApiCall("issueCreate", <<bookId>>, <<>>))]
    /\ UNCHANGED <<cache, stats>>
    /\ ApiFrame

\* UPDATE books SET available_copies = available_copies - 1
\* WHERE id = ? AND available_copies > 0
DecrementAvailable(books, bookId) ==
    [n \in 1..Len(books) |->
        IF books[n][1] = bookId /\ books[n][3] > 0
        THEN WithDelta(books[n], -1) ELSE books[n]]

\* UPDATE books SET available_copies = available_copies + 1 WHERE id = ?
IncrementAvailable(books, bookId) ==
    [n \in 1..Len(books) |->
        IF books[n][1] = bookId THEN WithDelta(books[n], 1) ELSE books[n]]

\* POST /api/issues
ServePostIssue(i) ==
    /\ CallAt(i, "issueCreate", "sent")
    /\ LET bookId == app.calls[i].req[1]
           created == <<app.nextIssueId, bookId, "issued">>
       IN  app' = [Answer(app, i, TRUE, <<created>>) EXCEPT
                      !.issues = Append(@, created),
                      !.nextIssueId = @ + 1,
                      !.books = DecrementAvailable(@, bookId)]
    /\ ServerFrame

\* issuesApi.create after the await: addToArray, updateBookAvailableCopies
IssueCreateFinish(i) ==
    /\ CallAt(i, "issueCreate", "answered")
    /\ LET created == app.calls[i].resp[1]
       IN  Apply(UpdateBookAvailableCopiesIn(
                     AddToArrayIn(Store, Key_allIssues, created), created[2], -1))
    /\ app' = [app EXCEPT !.calls = WithoutCall(@, i)]
    /\ ApiFrame

\* cache.get(allIssues)?.find(i => i.id === id)
FindIssue(cached, id) ==
    IF cached = Null \/ RowsOf(Val(cached), id) = <<>>
    THEN Null ELSE Some(RowsOf(Val(cached), id)[1])

\* issuesApi.update up to the await, for an issue of the circulation table;
\* the body carries the issue's bookId
IssueUpdateStart(id, status) ==
    /\ app.started < MaxApiCalls
    /\ HasRow(app.issues, id)
    /\ Apply(GetIn(Store, Key_allIssues))
    /\ app' = [app EXCEPT !.started = @ + 1,
                  !.calls = Append(@, ApiCall("issueUpdate",
                                <<id, RowsOf(app.issues, id)[1][2], status>>,
                                FindIssue(GetRetIn(Store, Key_allIssues), id)))]
    /\ ApiFrame

\* PUT /api/issues/:id
ServePutIssue(i) ==
    /\ CallAt(i, "issueUpdate", "sent")
    /\ LET body == app.calls[i].req
           updated == ArrayReplace(app.issues, body)
       IN  app' = [Answer(app, i, TRUE, RowsOf(updated, body[1])) EXCEPT
                      !.issues = updated,
                      !.books = IF body[3] = "returned"
                                THEN IncrementAvailable(@, body[2]) ELSE @]
    /\ ServerFrame

\* issuesApi.update after the await: updateInArray, and
\* updateBookAvailableCopies when the cached issue was 'issued'
IssueUpdateFinish(i) ==
    /\ CallAt(i, "issueUpdate", "answered")
    /\ LET updated == app.calls[i].resp[1]
           currentIssue == app.calls[i].cur
           s == UpdateInArrayIn(Store, Key_allIssues, updated)
       IN  Apply(IF /\ currentIssue # Null
                    /\ Val(currentIssue)[3] = "issued"
                    /\ updated[3] = "returned"
                 THEN UpdateBookAvailableCopiesIn(s, updated[2], 1)
                 ELSE s)
    /\ app' = [app EXCEPT !.calls = WithoutCall(@, i)]
    /\ ApiFrame

\* the calls of booksApi and issuesApi, each returning before the next starts
NextIssuesApi ==
    \/ app.calls = <<>> /\ GetAllStart
    \/ \E id \in BookIds : app.calls = <<>> /\ GetByIdStart(id)
    \/ \E c \in CopyValues : app.calls = <<>> /\ CreateStart(c)
    \/ \E id \in BookIds, c \in CopyValues : app.calls = <<>> /\ UpdateStart(id, c)
    \/ \E id \in BookIds : app.calls = <<>> /\ DeleteStart(id)
    \/ app.calls = <<>> /\ IssuesGetAllStart
    \/ \E id \in BookIds : app.calls = <<>> /\ IssueCreateStart(id)
    \/ \E id \in 1..MaxApiCalls, status \in Statuses :
          app.calls = <<>> /\ IssueUpdateStart(id, status)
    \/ ServeGetBooks(1) \/ ServeGetBook(1) \/ ServePostBook(1)
    \/ ServePutBook(1) \/ ServeDeleteBook(1)
    \/ ServeGetIssues(1) \/ ServePostIssue(1) \/ ServePutIssue(1)
    \/ GetAllFinish(1) \/ GetByIdFinish(1) \/ CreateFinish(1)
    \/ UpdateFinish(1) \/ DeleteFinish(1)
    \/ IssuesGetAllFinish(1) \/ IssueCreateFinish(1) \/ IssueUpdateFinish(1)
    \/ Tick

SpecIssuesApi == InitApi(CopyValues) /\ [][NextIssuesApi]_vars

-----------------------------------------------------------------------------
(* A cache built with defaultTTL = 0: a set without ttlSeconds resolves the  *)
(* TTL 0, as does a set with ttlSeconds = 0                                  *)

InitNeverExpires ==
    /\ tier \in Tiers
    /\ defaultTTL = Some(0)
    /\ maxSize \in MaxSizes
    /\ cache = <<>>
    /\ stats = ZeroStats
    /\ now = StartTime
    /\ written = {}
    /\ everSet = {}
    /\ log = EmptyLog
    /\ app = NoApp

SpecNeverExpires == InitNeverExpires /\ [][Next]_vars

-----------------------------------------------------------------------------
(* The sweep over time.  The server constructor starts                      *)
(* setInterval(() => this._cleanup(), 60000) and nothing but destroy() stops *)
(* it, so a sweep that has work to do is taken eventually; the clock runs   *)
(* by itself.  The callers' own calls are under no obligation.              *)

MaxSweepSets == 2
MaxSweepGets == 2

NextSweep ==
    \/ \E k \in Keys, t \in TTLArgs :
          log.sets < MaxSweepSets /\ Set(k, BooksOf(1), t) /\ UNCHANGED app
    \/ \E k \in Keys : log.gets < MaxSweepGets /\ Get(k) /\ UNCHANGED app
    \/ Cleanup /\ UNCHANGED app
    \/ Tick

SpecSweep ==
    /\ Init /\ [][NextSweep]_vars
    /\ WF_vars(Cleanup /\ UNCHANGED app)
    /\ WF_vars(Tick)

-----------------------------------------------------------------------------
(* Glob matching as the specification states it: '*' is any run of         *)
(* characters, '?' is exactly one character, every other character is      *)
(* itself, and the whole key is matched                                    *)

RECURSIVE GlobMatches(_, _)
GlobMatches(p, s) ==
    IF p = <<>> THEN s = <<>>
    ELSE IF Head(p) = "*"
         THEN \/ GlobMatches(Tail(p), s)
              \/ s # <<>> /\ GlobMatches(p, Tail(s))
         ELSE /\ s # <<>>
              /\ (Head(p) = "?" \/ Head(p) = Head(s))
              /\ GlobMatches(Tail(p), Tail(s))

HasPrefix(s, pre) == Len(s) >= Len(pre) /\ SubSeq(s, 1, Len(pre)) = pre

AllKeys == Keys \cup GlobKeys

\* the entry of key k after the step
EntryAfter(k) == MapGet(cache', k)

\* the step is the call set(k, v, ttlSeconds); the conjuncts before Set follow
\* from Set and are there to be tested first
SetStep(k, v, ttlSeconds) ==
    /\ stats'.sets = stats.sets + 1
    /\ MapHas(cache', k)
    /\ EntryAfter(k).value = v
    /\ EntryAfter(k).createdAt = now
    /\ EntryAfter(k).expiresAt = NewEntry(k, v, ttlSeconds).expiresAt
    /\ Set(k, v, ttlSeconds)

\* the step is the call get(k); the first conjunct follows from Get and is
\* there to be tested first
GetStep(k) ==
    /\ log'.gets = log.gets + 1
    /\ Get(k)

\* the keys of m that are in the set ks, in m's order
KeysAmong(m, ks) ==
    LET keep(k) == k \in ks
    IN  SelectSeq(MapKeys(m), keep)

\* the next local midnight after clock reading t (t itself excluded)
NextMidnight(t) == t - (t % DayMs) + DayMs

\* the number a digit character stands for
DigitValue(c) == (CHOOSE i \in 1..10 : DigitChars[i] = c) - 1

IsDigits(str) == str # <<>> /\ \A i \in 1..Len(str) : \E j \in 1..10 : DigitChars[j] = str[i]

\* the number a string of digits stands for
RECURSIVE NumberOf(_)
NumberOf(str) ==
    IF str = <<>> THEN 0
    ELSE NumberOf(SubSeq(str, 1, Len(str) - 1)) * 10 + DigitValue(str[Len(str)])

\* str is a decimal numeral followed by '%': digits, or digits '.' two digits
IsPercentage(str) ==
    /\ Len(str) >= 2 /\ str[Len(str)] = "%"
    /\ LET num == SubSeq(str, 1, Len(str) - 1)
       IN  \/ IsDigits(num)
           \/ /\ Len(num) >= 4 /\ num[Len(num) - 2] = "."
              /\ IsDigits(SubSeq(num, 1, Len(num) - 3))
              /\ IsDigits(SubSeq(num, Len(num) - 1, Len(num)))

HasTwoDecimals(str) == Len(str) >= 5 /\ str[Len(str) - 3] = "."

\* the percentage str stands for, in hundredths of a percent
Hundredths(str) ==
    LET num == SubSeq(str, 1, Len(str) - 1)
    IN  IF HasTwoDecimals(str)
        THEN NumberOf(SubSeq(num, 1, Len(num) - 3)) * 100
                + NumberOf(SubSeq(num, Len(num) - 1, Len(num)))
        ELSE NumberOf(num) * 100

Abs(x) == IF x < 0 THEN -x ELSE x

-----------------------------------------------------------------------------
(* The claims *)

\* C1: after set(k, v), get(k) returns v as long as the clock has not passed
\* the entry's expiresAt and no delete, matching deletePattern, clear or
\* eviction removed k; of several sets on k the most recent one wins.
C1_SetThenGet ==
    \A w \in written :
        (w.expiresAt = Null \/ now <= Val(w.expiresAt))
            => GetRet(w.key) = Some(w.value)

\* C1 witness: two sets on one key, then a get that hit, at the very instant
\* expiresAt (the last instant at which the entry is still live).
C1_Witness ==
    \E w \in written :
        /\ stats.sets = 2 /\ everSet = {w.key} /\ Len(cache) = 1
        /\ stats.hits >= 1
        /\ w.expiresAt # Null /\ now = Val(w.expiresAt)
        /\ GetRet(w.key) = Some(w.value)

\* C2: for every key not set since construction or the last clear, get
\* returns the absent result and has returns false, and neither call adds an
\* entry to the store.
C2_NeverSetState ==
    \A k \in AllKeys \ everSet : GetRet(k) = Null /\ HasRet(k) = FALSE

C2_NeverSetStep ==
    \A k \in AllKeys \ everSet : cache' # cache => ~(Get(k) \/ Has(k))

C2_NeverSet == []C2_NeverSetState /\ [][C2_NeverSetStep]_vars

\* C2 witness: a get missed on a key that was not stored, while other keys
\* were (nothing has expired, been deleted, overwritten or evicted).
C2_Witness ==
    /\ now = StartTime
    /\ stats.misses = 1 /\ stats.hits = 0 /\ stats.deletes = 0
    /\ stats.sets >= 1 /\ stats.sets = Len(cache)
    /\ everSet # Keys

\* C3: once the clock is past the expiresAt of the most recent set(k, v, ttl),
\* get(k) returns absent and has(k) returns false, sweep or no sweep; the
\* first get or has removes the entry; no value comes back without a new set.
C3_ExpiredState ==
    /\ \A w \in written :
          (w.expiresAt # Null /\ now > Val(w.expiresAt))
              => GetRet(w.key) = Null /\ HasRet(w.key) = FALSE
    /\ \A k \in AllKeys \ WrittenKeys : GetRet(k) = Null /\ HasRet(k) = FALSE

C3_ExpiredStep ==
    \A k \in AllKeys :
        ( /\ MapHas(cache, k)
          /\ MapGet(cache, k).expiresAt # Null
          /\ now > Val(MapGet(cache, k).expiresAt)
          /\ Get(k) \/ Has(k) )
            => ~MapHas(cache', k)

C3_Expiry == []C3_ExpiredState /\ [][C3_ExpiredStep]_vars

\* C3 witness: in the browser tier (which has no sweep) an expired entry is
\* gone although no get has missed: a has removed it.
C3_Witness ==
    \E w \in written :
        /\ tier = "browser"
        /\ w.expiresAt # Null /\ now > Val(w.expiresAt)
        /\ ~MapHas(cache, w.key)
        /\ stats.misses = 0

\* C4: deletePattern("<resource>:*") removes exactly the stored keys that
\* start with "<resource>:", returns how many it removed, and leaves every
\* other entry as it was.
C4_ResourcePattern ==
    [][\A p \in {Pat_books, Pat_users} :
          DeletePattern(p) =>
              LET pre == SubSeq(p, 1, Len(p) - 1)
                  gone == {k \in KeySet(cache) : HasPrefix(k, pre)}
              IN  /\ KeySet(cache') = KeySet(cache) \ gone
                  /\ DeletePatternRet(p) = Cardinality(gone)
                  /\ \A k \in KeySet(cache') : EntryAfter(k) = MapGet(cache, k)]_vars

\* C5: deletePattern removes a key if and only if the whole key matches the
\* pattern read as a glob in which only '*' and '?' are special.
C5_GlobOnly ==
    [][\A p \in GlobPatterns :
          DeletePattern(p) =>
              KeySet(cache') = {k \in KeySet(cache) : ~GlobMatches(p, k)}]_vars

\* C6: a set of a new key into a store holding maxSize entries evicts exactly
\* the earliest inserted entry and then inserts the new one; get and has do
\* not change the order in which entries are evicted.
C6_EvictOldest ==
    [][ /\ \A k \in Keys, v \in Values, t \in TTLArgs :
              (Len(cache) = maxSize /\ ~MapHas(cache, k) /\ SetStep(k, v, t))
                  => MapKeys(cache') = Append(Tail(MapKeys(cache)), k)
        /\ \A k \in Keys :
              (Get(k) \/ Has(k))
                  => MapKeys(cache') = KeysAmong(cache, KeySet(cache')) ]_vars

\* C7: a set on a key that is already stored overwrites that entry and
\* removes no other entry, also when the store holds maxSize entries.
C7_OverwriteEvictsNothing ==
    [][\A k \in Keys, v \in Values, t \in TTLArgs :
          (MapHas(cache, k) /\ SetStep(k, v, t))
              => /\ KeySet(cache') = KeySet(cache)
                 /\ \A j \in KeySet(cache) \ {k} : EntryAfter(j) = MapGet(cache, j)]_vars

\* C8: the number of entries stored never exceeds maxSize.
C8_SizeBound == Len(cache) <= maxSize

\* C9 as stated: expiresAt is always the time of the set plus the resolved
\* TTL (explicit argument, else non-null defaultTTL, else seconds to midnight).
C9_Original ==
    [][\A k \in Keys, v \in Values, t \in TTLArgs :
          SetStep(k, v, t) =>
              LET ttl == IF t # Null THEN Val(t)
                         ELSE IF defaultTTL # Null THEN Val(defaultTTL)
                         ELSE SecondsUntilMidnight(now)
              IN  /\ EntryAfter(k).createdAt = now
                  /\ EntryAfter(k).expiresAt = Some(now + ttl * MsPerSecond)]_vars

\* C9 amended: the TTL is resolved in that priority order; a resolved TTL
\* other than 0 gives expiresAt = time of the set + TTL * 1000 ms, a resolved
\* TTL of 0 gives expiresAt = null; createdAt and expiresAt replace those of
\* any previous entry of the key.
C9_TTLResolution ==
    [][\A k \in Keys, v \in Values, t \in TTLArgs :
          SetStep(k, v, t) =>
              LET ttl == IF t # Null THEN Val(t)
                         ELSE IF defaultTTL # Null THEN Val(defaultTTL)
                         ELSE SecondsUntilMidnight(now)
              IN  /\ EntryAfter(k).createdAt = now
                  /\ EntryAfter(k).value = v
                  /\ ttl # 0 => EntryAfter(k).expiresAt = Some(now + ttl * MsPerSecond)
                  /\ ttl = 0 => EntryAfter(k).expiresAt = Null]_vars

\* C9 witness: an entry overwritten by a set whose explicit ttlSeconds = 1 won
\* over a different default (defaultTTL null, 86399 s left to midnight).
C9_Witness ==
    /\ defaultTTL = Null
    /\ SecondsUntilMidnight(now) # 1
    /\ stats.sets = 2 /\ Len(cache) = 1 /\ Cardinality(everSet) = 1
    /\ cache[1].createdAt = now
    /\ cache[1].expiresAt = Some(now + MsPerSecond)

\* C10: with defaultTTL = null and no ttlSeconds, the entry gets a non-null
\* expiresAt at the next local midnight or less than a second before it.
C10_ExpiresAtMidnight ==
    [][\A k \in Keys, v \in Values :
          (defaultTTL = Null /\ SetStep(k, v, Null))
              => /\ EntryAfter(k).expiresAt # Null
                 /\ Val(EntryAfter(k).expiresAt) <= NextMidnight(now)
                 /\ Val(EntryAfter(k).expiresAt) > NextMidnight(now) - MsPerSecond]_vars

\* C11: every get adds one to exactly one of hits and misses (hits when it
\* returns a value, misses when the key is missing or expired), every set adds
\* one to sets; so since construction or the last clear hits + misses is the
\* number of get calls and sets is the number of set calls.
C11_CountersState ==
    /\ stats.hits + stats.misses = log.gets
    /\ stats.sets = log.sets

C11_CountersStep ==
    /\ \A k \in Keys :
          GetStep(k) =>
              /\ GetRet(k) # Null =>
                    stats' = [stats EXCEPT !.hits = stats.hits + 1]
              /\ GetRet(k) = Null =>
                    stats' = [stats EXCEPT !.misses = stats.misses + 1]
    /\ \A k \in Keys, v \in Values, t \in TTLArgs :
          SetStep(k, v, t) => stats' = [stats EXCEPT !.sets = stats.sets + 1]

C11_Counters == []C11_CountersState /\ [][C11_CountersStep]_vars

\* C11 witness: one set and two gets of that key: the first hit, the second
\* found the entry expired and missed.
C11_Witness ==
    /\ log.sets = 1 /\ log.gets = 2
    /\ stats.hits = 1 /\ stats.misses = 1 /\ stats.deletes = 0
    /\ Cardinality(everSet) = 1 /\ cache = <<>>

\* C12: every removal of an entry adds one to deletes: a delete(k) that
\* removed an entry, each key removed by deletePattern, and each removal of an
\* expired entry by get, by has or by the background sweep.
C12_RemovalsCounted ==
    [][ ( \/ \E k \in Keys : GetStep(k) \/ Has(k) \/ Delete(k)
          \/ \E p \in Patterns : DeletePattern(p)
          \/ Cleanup )
            => stats'.deletes = stats.deletes + (Len(cache) - Len(cache')) ]_vars

\* C13: with hits + misses > 0, stats().hitRate is the percentage
\* 100 * hits / (hits + misses) written with two decimals and no further from
\* the exact value than half of 0.01; with no get since construction or the
\* last clear it is a percentage of value zero; the record reports the
\* counters and the size as they are, and stats() changes nothing.
C13_HitRateState ==
    LET r == StatsRet
        total == stats.hits + stats.misses
    IN  /\ IsPercentage(r.hitRate)
        /\ total > 0 =>
              /\ HasTwoDecimals(r.hitRate)
              /\ 2 * Abs(Hundredths(r.hitRate) * total - stats.hits * 10000) <= total
        /\ total = 0 => Hundredths(r.hitRate) = 0
        /\ r.hits = stats.hits /\ r.misses = stats.misses
        /\ r.sets = stats.sets /\ r.deletes = stats.deletes
        /\ r.size = Len(cache) /\ r.maxSize = maxSize

C13_HitRate == []C13_HitRateState /\ [][Stats => UNCHANGED <<cache, stats>>]_vars

\* C13 witness: two hits in three gets, a rate of 66.666...% that stats()
\* reports rounded up as 66.67%.
C13_Witness ==
    /\ stats.hits = 2 /\ stats.misses = 1
    /\ StatsRet.hitRate = <<"6", "6", ".", "6", "7", "%">>

\* C14: clear() leaves the store empty (stats().size = 0) and hits, misses,
\* sets and deletes at 0, whatever the state it is called in; has(k) is false
\* and get(k) is absent for every key until the key is set again; maxSize
\* and defaultTTL are unchanged.
C14_ClearStep ==
    Clear =>
        /\ cache' = <<>> /\ stats' = ZeroStats
        /\ StatsRet'.size = 0
        /\ StatsRet'.hits = 0 /\ StatsRet'.misses = 0
        /\ StatsRet'.sets = 0 /\ StatsRet'.deletes = 0
        /\ \A k \in AllKeys : GetRet(k)' = Null /\ HasRet(k)' = FALSE
        /\ maxSize' = maxSize /\ defaultTTL' = defaultTTL

C14_ClearedState ==
    /\ log.cleared => cache = <<>> /\ stats.sets = 0 /\ stats.deletes = 0 /\ stats.hits = 0
    /\ log.sets = 0 => \A k \in AllKeys : GetRet(k) = Null /\ ~HasRet(k)

C14_Clear == []C14_ClearedState /\ [][C14_ClearStep]_vars

\* C14 witness: a clear emptied a store that held entries, no key has been
\* set since, and a get made after the clear missed.
C14_Witness ==
    /\ log.cleared
    /\ cache = <<>> /\ StatsRet.size = 0
    /\ stats = [ZeroStats EXCEPT !.misses = 1]

\* C15: delete(k) removes the entry of k if one is stored and returns true;
\* it returns false and changes neither the store nor deletes if none is
\* stored; every other key keeps its entry, and has(k) is false afterwards.
C15_Delete ==
    [][\A k \in Keys :
          Delete(k) =>
              /\ MapHas(cache, k) =>
                    /\ DeleteRet(k) = TRUE
                    /\ Len(cache') = Len(cache) - 1
                    /\ stats' = [stats EXCEPT !.deletes = stats.deletes + 1]
              /\ ~MapHas(cache, k) =>
                    /\ DeleteRet(k) = FALSE
                    /\ cache' = cache
                    /\ stats' = stats
              /\ ~MapHas(cache', k) /\ HasRet(k)' = FALSE
              /\ \A j \in KeySet(cache) \ {k} :
                    MapHas(cache', j) /\ EntryAfter(j) = MapGet(cache, j)
              /\ MapKeys(cache') = KeysAmong(cache, KeySet(cache) \ {k})]_vars

\* C15 witness: two keys were set in a store with room for both, one entry
\* has been removed and counted while the other is still stored and live.
C15_Witness ==
    /\ maxSize = 2 /\ stats.sets = 2 /\ Cardinality(everSet) = 2
    /\ stats.deletes = 1 /\ Len(cache) = 1
    /\ HasRet(cache[1].key)
    /\ \A k \in everSet \ {cache[1].key} : ~HasRet(k)

\* C16: in every reachable state and for every key, has(k) is true exactly
\* when a get(k) at the same instant returns a stored value; a get(k) and a
\* has(k) leave the same stored entries behind: all of them, except the entry
\* of k when it is stored and expired.
C16_SameResultState ==
    \A k \in AllKeys : HasRet(k) = (GetRet(k) # Null)

C16_SameEntriesStep ==
    \A k \in Keys :
        LET left == IF MapHas(cache, k) /\ ~HasRet(k)
                    THEN MapDelete(cache, k) ELSE cache
        IN  /\ GetStep(k) => cache' = left
            /\ Has(k) => cache' = left

C16_HasLikeGet == []C16_SameResultState /\ [][C16_SameEntriesStep]_vars

\* C16 witness: after a hit, the store holds a live entry (has true, get a
\* value) next to an expired entry not yet removed (has false, get absent).
C16_Witness ==
    /\ stats.hits = 1 /\ Len(cache) = 2
    /\ \E i, j \in 1..2 :
          /\ HasRet(cache[i].key) /\ GetRet(cache[i].key) = Some(cache[i].value)
          /\ Expired(cache[j]) /\ ~HasRet(cache[j].key) /\ GetRet(cache[j].key) = Null

\* C17: set, delete, deletePattern, clear and stats never throw, whatever
\* the key, the value and the pattern, a pattern with '(', '[' or '+' in it
\* included.
C17_NeverFails == log.failed = FALSE

\* C18: with a configured type name that is not in the registry,
\* CacheFactory.create raises and returns no instance while the server
\* module loads: the server never serves a request, and the singleton is
\* never set.
C18_UnknownTypeFailsAtStartup ==
    (app.type \notin RegistryTypes \cup {""} /\ app.phase # "loading")
        => /\ app.phase = "crashed"
           /\ app.cacheInstance = Null
           /\ app.served = 0 /\ app.response = Null

\* C19: with the 'redis' backend, whose client is never initialised, a read
\* handler answers from the database as on a miss and a write handler
\* completes: every response is a success.
C19_CacheFailureDegrades ==
    (app.cacheInstance = Some("RedisCache") /\ app.response # Null)
        => Val(app.response).status = 200

\* C20: the server-tier and the browser-tier cache, given the same options,
\* the same clock and the same calls, return the same results, the stats()
\* record and its hitRate string included, and hold the same keys.  The
\* methods of the two classes differ in stats() and in set's eviction, so:
\* in every reachable state stats() returns the same record whichever tier's
\* code runs it, and a set leaves the same keys.
C20_TiersAgree ==
    /\ StatsRetOf("server") = StatsRetOf("browser")
    /\ \A k \in Keys :
          LET e == NewEntry(k, << <<1, 1>> >>, Null)
          IN  MapKeys(MapSet(EvictIfFullOf("server", cache), k, e))
                = MapKeys(MapSet(EvictIfFullOf("browser", cache), k, e))

\* C21: when a request has been answered and no other is in flight, a
\* successful answer that carries book rows carries the rows of the database
\* as they are now, whatever writes completed before it.
C21_ReadsFresh ==
    (app.phase = "serving" /\ NoRequest /\ app.response # Null
        /\ Val(app.response).status = 200 /\ Val(app.response).body # Null)
        => Val(app.response).body = Some(BooksOf(app.db))

\* C22: once no read and no write is in flight, the cache holds no book rows
\* older than the database, so the next read of 'books:all' is fresh.
C22_BoundedStaleness ==
    (app.phase = "serving" /\ NoRequest /\ GetRet(Str_booksAll) # Null)
        => GetRet(Str_booksAll) = Some(BooksOf(app.db))

\* C23: on the server, deletePattern('books:*') removes every stored key the
\* catalog generates for books (list, per-id, search) and leaves every other
\* stored key with its entry.
C23_BookWriteStep ==
    tier = "server" /\ DeletePattern(CacheKeys_patterns("books"))
        => \A k \in KeySet(cache) :
              IF k \in CatalogKeys("server", "books")
              THEN ~MapHas(cache', k)
              ELSE MapHas(cache', k) /\ MapGet(cache', k) = MapGet(cache, k)

C23_BookWriteInvalidates == [][C23_BookWriteStep]_vars

\* C29: in either tier, the pattern of a resource matches a stored catalog
\* key exactly when the catalog generates that key for that resource.
C29_PatternsResourceScoped ==
    \A k \in KeySet(cache) : \A r \in CatalogResources(tier) :
        PatternTest(CacheKeys_patterns(r), k) <=> k \in CatalogKeys(tier, r)

\* the ids of a cached collection
IdsOf(array) == {array[i][1] : i \in 1..Len(array)}

\* every stored entry but that of k is kept as it is
OthersKept(k) ==
    \A j \in KeySet(cache) \ {k} :
        MapHas(cache', j) /\ MapGet(cache', j) = MapGet(cache, j)

\* C24: addToArray on an uncached key stores nothing: the key is absent
\* afterwards, sets is unchanged and the other entries are kept; on a cached
\* array of length N it stores, as a set at this time does, the N old
\* elements in their order followed by the item.
C24_AddStep ==
    \A k \in ArrayKeys, item \in ArrayItems :
        AddToArray(k, item) =>
            IF GetRet(k) = Null
            THEN /\ ~MapHas(cache', k)
                 /\ GetRet(k)' = Null
                 /\ stats'.sets = stats.sets
                 /\ OthersKept(k)
            ELSE /\ MapHas(cache', k)
                 /\ Len(MapGet(cache', k).value) = Len(Val(GetRet(k))) + 1
                 /\ SubSeq(MapGet(cache', k).value, 1, Len(Val(GetRet(k))))
                       = Val(GetRet(k))
                 /\ MapGet(cache', k).value[Len(Val(GetRet(k))) + 1] = item
                 /\ MapGet(cache', k).createdAt = now
                 /\ MapGet(cache', k).expiresAt = NewEntry(k, <<>>, Null).expiresAt
                 /\ stats'.sets = stats.sets + 1

C24_AddToArray == [][C24_AddStep]_vars

\* an item was appended to a cached list of two (no set stores three items)
C24_Witness ==
    /\ MapHas(cache, Str_booksAll)
    /\ MapGet(cache, Str_booksAll).value = << <<1, 1>>, <<2, 1>>, <<1, 2>> >>
    /\ MapGet(cache, Str_booksAll).createdAt > StartTime

\* C25: updateInArray on a cached array keeps the length and the order,
\* puts the item where an element has its id and keeps every other element.
C25_UpdateStep ==
    \A k \in ArrayKeys, item \in ArrayItems :
        (GetRet(k) # Null /\ UpdateInArray(k, item)) =>
            /\ MapHas(cache', k)
            /\ Len(MapGet(cache', k).value) = Len(Val(GetRet(k)))
            /\ \A i \in 1..Len(Val(GetRet(k))) :
                   MapGet(cache', k).value[i] =
                       IF Val(GetRet(k))[i][1] = item[1]
                       THEN item ELSE Val(GetRet(k))[i]

C25_UpdateInArray == [][C25_UpdateStep]_vars

\* one set and one helper call gave a list whose first item is the new
\* revision of item 1 and whose second is the untouched item 2
C25_Witness ==
    /\ MapHas(cache, Str_booksAll)
    /\ MapGet(cache, Str_booksAll).value = << <<1, 2>>, <<2, 1>> >>
    /\ log.sets = 2 /\ log.gets = 1

\* C26: removeFromArray on a cached array shortens it by exactly one when
\* the id is in it and leaves the value as it is when the id is not.
C26_RemoveStep ==
    \A k \in ArrayKeys, id \in ArrayIds :
        (GetRet(k) # Null /\ RemoveFromArray(k, id)) =>
            /\ MapHas(cache', k)
            /\ IF id \in IdsOf(Val(GetRet(k)))
               THEN Len(MapGet(cache', k).value) = Len(Val(GetRet(k))) - 1
               ELSE MapGet(cache', k).value = Val(GetRet(k))

C26_RemoveFromArray == [][C26_RemoveStep]_vars

\* C27: updateInArray with an item whose id no element has, and
\* removeFromArray with such an id, change no entry and not the sets counter.
C27_NoMatchStep ==
    \A k \in ArrayKeys :
        /\ \A item \in ArrayItems :
              (GetRet(k) # Null /\ item[1] \notin IdsOf(Val(GetRet(k)))
                  /\ UpdateInArray(k, item))
                  => cache' = cache /\ stats'.sets = stats.sets
        /\ \A id \in ArrayIds :
              (GetRet(k) # Null /\ id \notin IdsOf(Val(GetRet(k)))
                  /\ RemoveFromArray(k, id))
                  => cache' = cache /\ stats'.sets = stats.sets

C27_NoMatchNoOp == [][C27_NoMatchStep]_vars

\* the store holds an entry of k whose expiresAt has passed
StoredExpired(k) == MapHas(cache, k) /\ Expired(MapGet(cache, k))

\* C28: in either tier, a stored entry whose expiresAt has passed is
\* eventually no longer stored, whether or not a caller touches its key.
C28_SweepRemovesExpired ==
    \A k \in Keys : StoredExpired(k) ~> ~StoredExpired(k)

\* a name that is an ordinary property name: not empty, and no accessor of
\* Object.prototype
OrdinaryName(name) == name # "" /\ name # "__proto__"

\* what the claim holds of one name in the registry as it is now
RegisteredHolds(name) ==
    /\ \A options \in OptionArgs :
          FactoryCreate(app, name, options)
              = Some([class |-> Val(app.registered[name]),
                      options |-> CreateOptions(options)])
    /\ name \in GetAvailableTypes(app)

\* the types of the initial registry that no register call named still give
\* their original classes
OriginalsKept ==
    \A t \in RegistryTypes : \A options \in OptionArgs :
        app.registered[t] = Null =>
            FactoryCreate(app, t, options)
                = Some([class |-> Val(CacheTypesLookup(t)),
                        options |-> CreateOptions(options)])

\* C30: once register(name, C) was called, create({type: name, options})
\* returns an instance of the C last registered under name, built with the
\* options, getAvailableTypes() includes name, and the original types that
\* were not named still give their classes.
C30_Register ==
    /\ \A name \in FactoryNames : app.registered[name] # Null => RegisteredHolds(name)
    /\ OriginalsKept

\* C31: a read that finds 'books:all' absent goes on to load whatever other
\* reads are in flight; every miss becomes one load and every load one set;
\* and the set that runs last leaves its own rows in the cache.
C31_LoadsState ==
    /\ stats.misses = app.loads + Cardinality(ReadersAt("query"))
    /\ app.loads = stats.sets + Cardinality(ReadersAt("set"))

C31_ReadStep ==
    \A r \in Readers :
        /\ (app.readers[r].pc = "idle" /\ app.served < MaxStampedeRequests
               /\ GetRet(Str_booksAll) = Null)
               => ENABLED ReaderCacheGet(r)
        /\ (GetRet(Str_booksAll) = Null /\ ReaderCacheGet(r))
               => app'.readers[r].pc = "query"
        /\ ReaderCacheSet(r)
               => MapGet(cache', Str_booksAll).value = Val(app.readers[r].rows)

C31_NoDeduplication == []C31_LoadsState /\ [][C31_ReadStep]_vars

\* every reader has missed and loaded and none has stored yet: as many loads
\* as readers for the one key, the loads of different revisions
C31_Witness ==
    /\ ReadersAt("set") = Readers
    /\ app.loads = NumReaders /\ stats.misses = NumReaders /\ stats.sets = 0
    /\ app.readers[1].rows # app.readers[2].rows

\* is xs what is left of ys when some elements are dropped, in their order?
RECURSIVE IsSubsequence(_, _)
IsSubsequence(xs, ys) ==
    IF xs = <<>> THEN TRUE
    ELSE IF ys = <<>> THEN FALSE
    ELSE IF Head(xs) = Head(ys) THEN IsSubsequence(Tail(xs), Tail(ys))
    ELSE IsSubsequence(xs, Tail(ys))

\* C33: a run of the sweep removes each entry whose expiresAt is not null
\* and earlier than now, keeps every other entry as it is and in its place
\* among the others, and leaves hits, misses and sets alone.
C33_SweepStep ==
    Cleanup =>
        /\ \A i \in 1..Len(cache) :
              IF cache[i].expiresAt # Null /\ Val(cache[i].expiresAt) < now
              THEN ~MapHas(cache', cache[i].key)
              ELSE MapHas(cache', cache[i].key)
                   /\ MapGet(cache', cache[i].key) = cache[i]
        /\ IsSubsequence(cache', cache)
        /\ stats'.hits = stats.hits /\ stats'.misses = stats.misses
        /\ stats'.sets = stats.sets

C33_SweepFrame == [][C33_SweepStep]_vars

\* of two entries set and never read or deleted, the sweep took one and
\* left the other
C33_Witness ==
    /\ tier = "server" /\ log.gets = 0 /\ stats.sets = 2 /\ stats.deletes = 0
    /\ Len(cache) = 1 /\ Cardinality(WrittenKeys) = 2
    /\ now = EndTime

\* C34: while an entry that has expired is still stored, has(k) is false but
\* delete(k) returns true, deletePattern counts the key when the pattern
\* matches it, and stats().size counts the entry; a delete or a matching
\* deletePattern removes it and adds it to deletes (such a step shortens the
\* store, so only the steps that do are looked at).
C34_StoredState ==
    /\ StatsRet.size = Len(cache)
    /\ \A k \in Keys :
          StoredExpired(k) =>
              /\ ~HasRet(k)
              /\ DeleteRet(k)
              /\ \A p \in Patterns :
                    PatternTest(p, k) => k \in PatternKeys(p)

C34_RemoveStep ==
    \/ Len(cache') >= Len(cache)
    \/ /\ \A k \in Keys :
             (StoredExpired(k) /\ Delete(k)) =>
                 ~MapHas(cache', k) /\ stats'.deletes = stats.deletes + 1
       /\ \A p \in Patterns :
             ((\E k \in Keys : StoredExpired(k) /\ PatternTest(p, k))
                 /\ DeletePattern(p)) =>
                 /\ \A k \in Keys : PatternTest(p, k) => ~MapHas(cache', k)
                 /\ stats'.deletes = stats.deletes
                       + Cardinality({k \in KeySet(cache) : PatternTest(p, k)})

C34_PhysicalRemoval == []C34_StoredState /\ [][C34_RemoveStep]_vars

\* a live entry next to an expired one that is still stored: size 2, has
\* false and delete true for the expired key, which 'books:*' matches
C34_Witness ==
    /\ Len(cache) = 2 /\ StatsRet.size = 2
    /\ StoredExpired(Str_booksAll) /\ ~HasRet(Str_booksAll) /\ DeleteRet(Str_booksAll)
    /\ Str_booksAll \in PatternKeys(Pat_books) /\ DeletePatternRet(Pat_books) = 1
    /\ \E k \in Keys : HasRet(k)

\* hits or misses are not what they were
ReadsCounted == stats'.hits # stats.hits \/ stats'.misses # stats.misses

\* a step of an operation the claim lets never change hits and misses
NonReadingStep ==
    \/ \E k \in ArrayKeys : Has(k)
    \/ \E k \in ArrayKeys, v \in CounterValues : Set(k, v, Null)
    \/ \E k \in ArrayKeys : Delete(k)
    \/ \E p \in {Pat_books, Pat_all} : DeletePattern(p)
    \/ Stats
    \/ Cleanup

\* what a helper call adds to the counters: one to hits or to misses, and
\* one to sets exactly when the key was cached
HelperCountsStep ==
    \A k \in ArrayKeys, item \in CounterItems :
        (tier = "browser" /\ HelperCall(k, item)) =>
            /\ stats'.hits + stats'.misses = stats.hits + stats.misses + 1
            /\ stats'.hits = stats.hits + (IF GetRet(k) # Null THEN 1 ELSE 0)
            /\ stats'.sets = stats.sets + (IF GetRet(k) # Null THEN 1 ELSE 0)

\* C35 as stated: hits and misses change only in a get or a helper call
C35_Original ==
    [][ReadsCounted =>
          \/ \E k \in ArrayKeys : Get(k)
          \/ \E k \in ArrayKeys, item \in CounterItems : HelperCall(k, item)]_vars

\* C35: hits and misses change only in a get, in a helper call, or in a
\* clear, which resets them; has, set, delete, deletePattern, stats and the
\* sweep never change them; a helper call adds one to hits or to misses and
\* one to sets exactly when the key was cached.
C35_CountersStep ==
    /\ ReadsCounted =>
          /\ \/ \E k \in ArrayKeys : Get(k)
             \/ \E k \in ArrayKeys, item \in CounterItems : HelperCall(k, item)
             \/ Clear
          /\ ~NonReadingStep
    /\ HelperCountsStep

C35_ReadCounters == [][C35_CountersStep]_vars

\* a helper appended to a cached list of one (one hit, the second set) and a
\* read missed; no set stores two items
C35_Witness ==
    /\ stats.hits = 1 /\ stats.sets = 2
    /\ \E k \in ArrayKeys :
          MapHas(cache, k) /\ Len(MapGet(cache, k).value) = 2

\* C36 (state): an entry stored with expiresAt = null and not deleted,
\* invalidated, evicted or cleared since is in the cache at every later time,
\* the sweep included, and get of its key returns its value.
C36_StoredState ==
    \A w \in written :
        w.expiresAt = Null =>
            /\ MapHas(cache, w.key)
            /\ MapGet(cache, w.key).expiresAt = Null
            /\ GetRet(w.key) = Some(w.value)

\* C36 (step): a set whose resolved TTL is 0, given as ttlSeconds = 0 or taken
\* from defaultTTL = 0, stores expiresAt = null; the sweep leaves every entry
\* with expiresAt = null where it is.
C36_SetStep ==
    /\ \A k \in Keys, v \in Values, t \in {Null, Some(0)} :
          SetStep(k, v, t) =>
              /\ ResolveTTL(t) = 0
              /\ EntryAfter(k).expiresAt = Null
              /\ [key |-> k, value |-> v, expiresAt |-> Null] \in written'
    /\ (Cleanup /\ UNCHANGED app) =>
          \A i \in 1..Len(cache) :
              cache[i].expiresAt = Null => MapHas(cache', cache[i].key)

\* C36: a resolved TTL of 0 means "never expires": set(k, v, 0), or a set that
\* falls back to defaultTTL = 0, stores expiresAt = null, and get(k) returns v
\* at every later time until the entry is deleted, invalidated, evicted or
\* cleared; the sweep never removes it.
C36_NeverExpires == []C36_StoredState /\ [][C36_SetStep]_vars

\* C36 witness: in the server tier an entry set at the start with TTL 0 is
\* still stored at the end of the modelled time, a second after an entry with
\* TTL 1 would have expired, and a get has hit it.
C36_Witness ==
    /\ tier = "server"
    /\ now = EndTime
    /\ Len(cache) = 1
    /\ cache[1].createdAt = StartTime
    /\ cache[1].expiresAt = Null
    /\ stats.hits = 1
    /\ StartTime + MsPerSecond < now

\* C37: a set that overwrites a stored key refreshes value and timestamps but
\* does not move the key in the eviction order: the keys stored after the set
\* are in the order they had before it.
C37_OverwriteKeepsPlace ==
    [][\A k \in Keys, v \in Values, t \in TTLArgs :
          (MapHas(cache, k) /\ SetStep(k, v, t))
              => /\ EntryAfter(k).value = v
                 /\ EntryAfter(k).createdAt = now
                 /\ MapKeys(cache') = KeysAmong(cache, KeySet(cache'))]_vars

\* the list cached under 'books:all' while it is unexpired, else null
CachedBooks == GetRetIn(Store, Key_allBooks)

\* the id of the record the write call i is about
WrittenId(i) ==
    IF app.calls[i].op = "create" THEN app.calls[i].resp[1][1] ELSE app.calls[i].req[1]

\* the step is the continuation of the write call i
WriteFinish(i) == CreateFinish(i) \/ UpdateFinish(i) \/ DeleteFinish(i)

\* C32 as stated: once a list read that was overtaken by a write has stored
\* its list, the cached list differs from the system of record whenever no
\* call is in flight, for as long as the entry is cached and unexpired.
C32_Original ==
    (app.raced /\ app.calls = <<>> /\ CachedBooks # Null)
        => Differs(Val(CachedBooks), app.books)

\* C32: a write's continuation that finds the list uncached leaves it
\* uncached; the list read stores the list it fetched, whatever was written
\* since; a later read that hits returns the cached list and changes nothing;
\* a later write's continuation changes only the record it is called with.
C32_StaleRead ==
    [][ /\ \A i \in 1..MaxInFlight :
              WriteFinish(i) =>
                  IF CachedBooks = Null
                  THEN ~MapHas(cache', Key_allBooks)
                  ELSE /\ MapHas(cache', Key_allBooks)
                       /\ \A id \in BookIds \ {WrittenId(i)} :
                             RowsOf(MapGet(cache', Key_allBooks).value, id)
                                 = RowsOf(Val(CachedBooks), id)
        /\ \A i \in 1..MaxInFlight :
              GetAllFinish(i) =>
                  /\ MapHas(cache', Key_allBooks)
                  /\ MapGet(cache', Key_allBooks).value = app.calls[i].resp
        /\ (CachedBooks # Null /\ GetAllStart) =>
              /\ cache' = cache
              /\ app'.calls = app.calls ]_vars

\* C32 witness: a list read overtaken by a write has stored a list that
\* differs from the system of record, every call has returned, and a later
\* read or helper call has hit the cached list without making it equal.
C32_Witness ==
    /\ app.phase = "api"
    /\ app.raced
    /\ app.calls = <<>>
    /\ app.started = MaxApiCalls
    /\ stats.hits = 1
    /\ CachedBooks # Null
    /\ Differs(Val(CachedBooks), app.books)

\* C38: the list cached under 'books:all' never holds two records with the
\* same id.
C38_NoDuplicateIds ==
    MapHas(cache, Key_allBooks) =>
        LET list == MapGet(cache, Key_allBooks).value
        IN  Cardinality(IdsOf(list)) = Len(list)

\* the record of book id in the list cached under 'books:all' and the record
\* cached under 'books:<id>', each while it is cached and unexpired
ListRecordIn(s, id) ==
    IF GetRetIn(s, Key_allBooks) = Null THEN <<>>
    ELSE RowsOf(Val(GetRetIn(s, Key_allBooks)), id)

DetailRecordIn(s, id) ==
    IF GetRetIn(s, Key_book(id)) = Null THEN <<>>
    ELSE Val(GetRetIn(s, Key_book(id)))

ListRecord(id) == ListRecordIn(Store, id)
DetailRecord(id) == DetailRecordIn(Store, id)

\* the store after the step, and the server's row of book id after the step
StoreAfter == [cache |-> cache', stats |-> stats']
ServerRowAfter(id) == RowsOf(app'.books, id)

\* C39: when issuesApi.create or issuesApi.update has completed, the
\* availableCopies of the affected book in 'books:all' and in 'books:<id>',
\* where cached, equals the server's available_copies and is not negative.
C39_CopiesInStep ==
    [][ (IssueCreateFinish(1) \/ IssueUpdateFinish(1)) =>
           LET id == app.calls[1].resp[1][2]
               agrees(rec) ==
                   (rec # <<>> /\ ServerRowAfter(id) # <<>>)
                       => /\ rec[1][3] = ServerRowAfter(id)[1][3]
                          /\ rec[1][3] >= 0
           IN  agrees(ListRecordIn(StoreAfter, id)) /\ agrees(DetailRecordIn(StoreAfter, id)) ]_vars

\* C40: with no call in flight, a book that is both in the cached list and
\* cached as an individual record is the same record in both.
C40_ListEqualsDetail ==
    \A id \in BookIds :
        (app.phase = "api" /\ app.calls = <<>>
           /\ ListRecord(id) # <<>> /\ DetailRecord(id) # <<>>)
            => ListRecord(id)[1] = DetailRecord(id)[1]

-----------------------------------------------------------------------------
(* What does hold of the code where a claim above fails *)

NoLineTerminator(s) == \A i \in 1..Len(s) : s[i] \notin LineTerminators

\* C4, for stored keys without a line terminator: the resource pattern
\* removes exactly the keys with the prefix and returns their number.
C4_Lemma_NoLineTerminator ==
    [][\A p \in {Pat_books, Pat_users} :
          ((\A k \in KeySet(cache) : NoLineTerminator(k)) /\ DeletePattern(p)) =>
              LET pre == SubSeq(p, 1, Len(p) - 1)
                  gone == {k \in KeySet(cache) : HasPrefix(k, pre)}
              IN  /\ KeySet(cache') = KeySet(cache) \ gone
                  /\ DeletePatternRet(p) = Cardinality(gone)
                  /\ \A k \in KeySet(cache') : EntryAfter(k) = MapGet(cache, k)]_vars

\* C6 and C8 in the server tier, whose set deletes the first key whatever it is.
C6_Lemma_ServerTier ==
    [][tier = "server" =>
        /\ \A k \in Keys, v \in Values, t \in TTLArgs :
              (Len(cache) = maxSize /\ ~MapHas(cache, k) /\ SetStep(k, v, t))
                  => MapKeys(cache') = Append(Tail(MapKeys(cache)), k)
        /\ \A k \in Keys :
              (Get(k) \/ Has(k))
                  => MapKeys(cache') = KeysAmong(cache, KeySet(cache')) ]_vars

C8_Lemma_ServerTier == tier = "server" => Len(cache) <= maxSize

\* C12 for delete and deletePattern, the two removals the code does count;
\* a get, a has or a sweep that removes an expired entry leaves deletes alone.
C12_Lemma_ExplicitRemovals ==
    [][ /\ ( \/ \E k \in Keys : Delete(k)
             \/ \E p \in Patterns : DeletePattern(p) )
               => stats'.deletes = stats.deletes + (Len(cache) - Len(cache'))
        /\ ( \/ \E k \in Keys : GetStep(k) \/ Has(k)
             \/ Cleanup )
               => stats'.deletes = stats.deletes ]_vars

\* C17 for patterns made of '*', '?' and characters that are not special in
\* a regular expression: the compiled expression is well formed.
C17_Lemma_GlobPatterns == \A p \in GlobPatterns \cup Patterns : ~PatternThrows(p)

\* C18 for a type name that is neither an own nor an inherited property of
\* the registry object: the load throws, nothing is served, no singleton.
C18_Lemma_NoSuchProperty ==
    (app.type = "memcached" /\ app.phase # "loading")
        => /\ app.phase = "crashed"
           /\ app.cacheInstance = Null
           /\ app.served = 0 /\ app.response = Null

\* C19 with the in-memory backend: no handler answers with an error.
C19_Lemma_InMemory ==
    (app.cacheInstance = Some("InMemoryCache") /\ app.response # Null)
        => Val(app.response).status = 200

\* C20 once a get has been counted and while the oldest key is not the empty
\* string: stats() and set agree in the two tiers.
C20_Lemma_AfterReads ==
    /\ stats.hits + stats.misses > 0 => StatsRetOf("server") = StatsRetOf("browser")
    /\ (cache # <<>> /\ Truthy(cache[1].key)) =>
          EvictIfFullOf("server", cache) = EvictIfFullOf("browser", cache)

\* C21, C22: the invalidation of a book route itself leaves no list of books
\* in the cache; the stale rows come from the routes that do not invalidate
\* and from a read that stores its rows after the invalidation.
C21_Lemma_BookWriteInvalidates ==
    [][(PutBookInvalidate /\ ~CacheCallThrows) => ~MapHas(cache', Str_booksAll)]_vars

\* C23 for the keys without a line terminator
C23_Lemma_NoLineTerminator ==
    [][tier = "server" /\ DeletePattern(CacheKeys_patterns("books"))
          => \A k \in KeySet(cache) :
                NoLineTerminator(k) =>
                   IF k \in CatalogKeys("server", "books")
                   THEN ~MapHas(cache', k)
                   ELSE MapHas(cache', k) /\ MapGet(cache', k) = MapGet(cache, k)]_vars

\* C29 for the generated keys without a line terminator; no pattern of a
\* resource matches a key of another resource, line terminator or not
C29_Lemma_NoLineTerminator ==
    \A k \in KeySet(cache) : \A r \in CatalogResources(tier) :
        /\ NoLineTerminator(k) =>
              (PatternTest(CacheKeys_patterns(r), k) <=> k \in CatalogKeys(tier, r))
        /\ PatternTest(CacheKeys_patterns(r), k) => k \in CatalogKeys(tier, r)

\* C26 for a cached array whose ids are all different
C26_Lemma_DistinctIds ==
    [][\A k \in ArrayKeys, id \in ArrayIds :
          (GetRet(k) # Null /\ RemoveFromArray(k, id)
              /\ Cardinality(IdsOf(Val(GetRet(k)))) = Len(Val(GetRet(k)))) =>
              /\ MapHas(cache', k)
              /\ IF id \in IdsOf(Val(GetRet(k)))
                 THEN Len(MapGet(cache', k).value) = Len(Val(GetRet(k))) - 1
                 ELSE MapGet(cache', k).value = Val(GetRet(k))]_vars

\* C27 for the value alone: without a match the stored array is the same
C27_Lemma_ValueKept ==
    [][\A k \in ArrayKeys :
          /\ \A item \in ArrayItems :
                (GetRet(k) # Null /\ item[1] \notin IdsOf(Val(GetRet(k)))
                    /\ UpdateInArray(k, item))
                    => MapGet(cache', k).value = Val(GetRet(k))
          /\ \A id \in ArrayIds :
                (GetRet(k) # Null /\ id \notin IdsOf(Val(GetRet(k)))
                    /\ RemoveFromArray(k, id))
                    => MapGet(cache', k).value = Val(GetRet(k))]_vars

\* C28 in the server tier, whose constructor starts the timer
C28_Lemma_ServerTier ==
    \A k \in Keys : (tier = "server" /\ StoredExpired(k)) ~> ~StoredExpired(k)

\* C30 for the names that are neither empty nor '__proto__'
C30_Lemma_OrdinaryNames ==
    /\ \A name \in FactoryNames :
          (app.registered[name] # Null /\ OrdinaryName(name)) => RegisteredHolds(name)
    /\ OriginalsKept

\* C37 below capacity: an overwrite in a store holding fewer than maxSize
\* entries leaves the sequence of keys as it was.
C37_Lemma_BelowCapacity ==
    [][\A k \in Keys, v \in Values, t \in TTLArgs :
          (Len(cache) < maxSize /\ MapHas(cache, k) /\ SetStep(k, v, t))
              => MapKeys(cache') = MapKeys(cache)]_vars

\* C39, what the continuation of issuesApi.create does: each cached record of
\* the issued book has one copy less than before, whatever the server did.
C39_Lemma_AlwaysDecrements ==
    [][ IssueCreateFinish(1) =>
           LET id == app.calls[1].resp[1][2]
           IN  /\ ListRecord(id) # <<>> =>
                     ListRecordIn(StoreAfter, id)[1][3] = ListRecord(id)[1][3] - 1
               /\ DetailRecord(id) # <<>> =>
                     DetailRecordIn(StoreAfter, id)[1][3] = DetailRecord(id)[1][3] - 1 ]_vars

\* C10 when at least one full second is left to midnight, and its examples:
\* 23:00:00 gives 3600 s and 00:00:01 gives 86399 s.
C10_Lemma_FullSecondLeft ==
    [][\A k \in Keys, v \in Values :
          (defaultTTL = Null /\ NextMidnight(now) - now >= MsPerSecond
             /\ SetStep(k, v, Null))
              => /\ EntryAfter(k).expiresAt # Null
                 /\ Val(EntryAfter(k).expiresAt) <= NextMidnight(now)
                 /\ Val(EntryAfter(k).expiresAt) > NextMidnight(now) - MsPerSecond]_vars

C10_Lemma_Examples ==
    /\ SecondsUntilMidnight(23 * 60 * 60 * MsPerSecond) = 3600
    /\ SecondsUntilMidnight(MsPerSecond) = 86399
    /\ SecondsUntilMidnight(DayMs) = 86400

====
